---- MODULE Spec2Model ----
(***************************************************************************)
(* mxindex: the HTTP handlers of routes.rs over the repository (db.rs) and *)
(* the cache (cache.rs), the probe of services.rs and the discovery engine *)
(* of federation_discovery.rs.                                             *)
(*                                                                         *)
(* Strings that the code inspects (domains, cache keys) are sequences of   *)
(* tokens, so that validation, case folding and key matching are computed. *)
(* Every await and every SQL statement of a handler is one step.           *)
(***************************************************************************)
EXTENDS Integers, Sequences, FiniteSets, TLC

VARIABLES
    servers,      \* the servers table: sequence of rows in id order
    cache,        \* the remote cache: key -> entry, for the keys present
    connected,    \* Cache.connection is Some(..)
    liftoff,      \* the on_liftoff fairing that calls Cache::connect: pending or done
    epoch,        \* history: number of invalidate_pattern calls completed
    dbFaults,     \* environment: repository calls may fail
    cacheFaults,  \* environment: cache commands may fail
    pc,           \* per request: the await the handler is suspended at
    op,           \* per request: which handler
    arg,          \* per request: the domain of the request
    ret,          \* per request: the response
    tmp,          \* per request: locals, and history of what it issued
    max_concurrent,   \* FederationDiscovery: configuration
    max_depth,
    batch_size,
    seed_servers,
    chunk,            \* environment: the rooms that publicRooms answers list
    dpc,              \* start_discovery: the await the run is suspended at
    depth,            \* rounds completed
    discovered,       \* HashSet discovered
    servers_to_check, \* Vec servers_to_check
    added_count,
    permits,          \* free permits of the round's semaphore
    probe,            \* per frontier position: state of its peer probe
    results,          \* the collected (server, result) pairs, in completion order
    ri,               \* position of the outer loop in results
    pending,          \* peers of results[ri] the inner loop has not yet taken
    cur,              \* add_server_to_index: its domain and probe result
    rounds,           \* history: the frontier of every round started
    runRows,          \* history: ids of the rows the run inserted
    atStart,          \* history: domains in the repository when the run started
    seenAt,           \* history: <<domain, depth>> for every insert into discovered
    world,            \* probe check: the outcome of each endpoint's request
    probeResult,      \* probe check: what discover_server_info returned
    table,            \* filter check: the servers table with its column values
    filter,           \* filter check: the ServerFilter of the call
    listing,          \* filter check: what get_filtered_servers returned
    limiter,          \* the managed Option<RateLimiterState> and how it was built
    client_requests,  \* RateLimiterState.client_requests: client -> (count, start)
    clock,            \* Instant::now(), in seconds
    checks            \* history: every check call with its time and result

apiVars == <<servers, cache, connected, liftoff, epoch, dbFaults, cacheFaults, pc, op, arg, ret,
            tmp>>

configVars == <<max_concurrent, max_depth, batch_size, seed_servers, chunk>>

discVars == <<dpc, depth, discovered, servers_to_check, added_count, permits, probe,
              results, ri, pending, cur, rounds, runRows, atStart, seenAt>>

probeVars == <<world, probeResult>>

filterVars == <<table, filter, listing>>

limitVars == <<limiter, client_requests, clock, checks>>

vars == <<apiVars, configVars, discVars, probeVars, filterVars, limitVars>>

-----------------------------------------------------------------------------
(* Bounds *)

\* number of HTTP requests of one behaviour
NReq == 3

Reqs == 1..NReq

-----------------------------------------------------------------------------
(* Domains *)

DomA == <<"a">>
DomAUp == <<"A">>
DomB == <<"b">>
DomPort == <<"a", ":", "8">>
DomPath == <<"a", "/">>
DomEmpty == <<>>

\* str::to_lowercase, on the letters of the model
LowerChar(c) == CASE c = "A" -> "a" [] c = "B" -> "b" [] OTHER -> c

Lower(s) == [i \in 1..Len(s) |-> LowerChar(s[i])]

Contains(s, c) == \E i \in 1..Len(s) : s[i] = c

Elems(v) == {v[i] : i \in DOMAIN v}

\* a validation that lets a port through
IsInvalidDomainPortAllowed(d) == Len(d) = 0 \/ Contains(d, "/")

\* the validation of add_server, server_info and add_server_to_index
IsInvalidDomain(d) == Len(d) = 0 \/ Contains(d, "/") \/ Contains(d, ":")

-----------------------------------------------------------------------------
(* Repository *)

\* .filter(domain.eq(d)): equality of Text values
RowsByDomain(rows, d) == {i \in 1..Len(rows) : rows[i].domain = d}

\* a lookup that finds no row
get_server_by_domain_none(rows, d) == FALSE

\* get_server_by_domain: Ok(Some(_)) iff a row has exactly this domain
get_server_by_domain(rows, d) == RowsByDomain(rows, d) # {}

\* the unique index on servers.domain: a second row of the same Text fails
UniqueViolation(rows, d) == \E i \in 1..Len(rows) : rows[i].domain = d

\* an insert that overwrites the oldest row when there is one
InsertRowOverwrite(rows, d, info) ==
    IF rows = <<>> THEN <<[id |-> 1, domain |-> d, info |-> info]>>
    ELSE [rows EXCEPT ![1] = [id |-> 1, domain |-> d, info |-> info]]

\* INSERT INTO servers: the row gets the next id
InsertRow(rows, d, info) == Append(rows, [id |-> Len(rows) + 1, domain |-> d, info |-> info])

\* servers.order(id.desc()).first(conn)
LastRow(rows) == rows[Len(rows)]

DbOutcomes == IF dbFaults THEN {"ok", "err"} ELSE {"ok"}


-----------------------------------------------------------------------------
(* get_filtered_servers (db.rs): the WHERE clauses, ORDER BY, OFFSET and LIMIT *)

\* Option<T>: None, one per type of value, and Some(x)
NoneText == [some |-> FALSE, v |-> <<>>]
NoneInt == [some |-> FALSE, v |-> 0]
NoneBool == [some |-> FALSE, v |-> FALSE]
NoneName == [some |-> FALSE, v |-> ""]
Opt(x) == [some |-> TRUE, v |-> x]

\* a row of servers with the columns the query reads; created_at is the time of
\* the INSERT and grows with id
ServerRow(i, d, n, descr, reg, rooms, rv) ==
    [id |-> i, domain |-> d, name |-> n, description |-> descr, registration_open |-> reg,
     public_rooms_count |-> rooms, room_versions |-> rv, created_at |-> i]

\* text LIKE pattern: % matches any run of characters, _ any one character
RECURSIVE Like(_, _)
Like(s, pat) ==
    IF pat = <<>> THEN s = <<>>
    ELSE IF Head(pat) = "%" THEN Like(s, Tail(pat)) \/ (s # <<>> /\ Like(Tail(s), pat))
    ELSE IF s = <<>> THEN FALSE
    ELSE (Head(pat) = "_" \/ Head(pat) = Head(s)) /\ Like(Tail(s), Tail(pat))

\* ILIKE: LIKE without regard to case
ILike(s, pat) == Like(Lower(s), Lower(pat))

\* a comparison with a NULL column is not true
LikeCol(col, pat) == col.some /\ Like(col.v, pat)

ILikeCol(col, pat) == col.some /\ ILike(col.v, pat)

\* format!("%{}%", s.to_lowercase())
SearchPattern(s) == <<"%">> \o Lower(s) \o <<"%">>

\* format!("%{}%", rv)
RoomVersionPattern(rv) == <<"%">> \o rv \o <<"%">>

\* domain.ilike(p).or(name.ilike(p)).or(description.ilike(p))
SearchWhere(row, f) ==
    f.search.some =>
      LET pat == SearchPattern(f.search.v)
      IN  ILike(row.domain, pat) \/ ILikeCol(row.name, pat) \/ ILikeCol(row.description, pat)

\* registration_open.eq(reg_open)
RegistrationWhere(row, f) ==
    f.registration_open.some =>
      row.registration_open.some /\ row.registration_open.v = f.registration_open.v

\* a has_rooms = false filter without the is_null() arm
RoomsWhereKnown(row, f) ==
    f.has_rooms.some =>
      IF f.has_rooms.v
      THEN row.public_rooms_count.some /\ row.public_rooms_count.v > 0
      ELSE row.public_rooms_count.some /\ row.public_rooms_count.v <= 0

\* public_rooms_count.gt(0), or public_rooms_count.le(0).or(is_null())
RoomsWhere(row, f) ==
    f.has_rooms.some =>
      IF f.has_rooms.v
      THEN row.public_rooms_count.some /\ row.public_rooms_count.v > 0
      ELSE ~row.public_rooms_count.some \/ row.public_rooms_count.v <= 0

\* room_versions.like(pattern)
RoomVersionWhere(row, f) ==
    f.room_version.some => LikeCol(row.room_versions, RoomVersionPattern(f.room_version.v))

\* a count query that leaves out the has_rooms filter
CountWhereNoRooms(row, f) ==
    SearchWhere(row, f) /\ RegistrationWhere(row, f) /\ RoomVersionWhere(row, f)

\* the filters put on count_query
CountWhere(row, f) ==
    SearchWhere(row, f) /\ RegistrationWhere(row, f) /\ RoomsWhere(row, f)
    /\ RoomVersionWhere(row, f)

\* the filters put on result_query
ResultWhere(row, f) ==
    SearchWhere(row, f) /\ RegistrationWhere(row, f) /\ RoomsWhere(row, f)
    /\ RoomVersionWhere(row, f)

\* filter.limit.unwrap_or(50).clamp(1, 100), filter.offset.unwrap_or(0).max(0)
DefaultLimit == 50
MinLimit == 1
MaxLimit == 100
DefaultOffset == 0
MinOffset == 0

UnwrapOr(o, d) == IF o.some THEN o.v ELSE d

\* a clamp without its lower end
ClampUpper(x, lo, hi) == IF x > hi THEN hi ELSE x

Clamp(x, lo, hi) == IF x < lo THEN lo ELSE IF x > hi THEN hi ELSE x

Max(x, y) == IF x > y THEN x ELSE y

Min(x, y) == IF x < y THEN x ELSE y

\* an unknown sort_by sorts by name
SortColumnOrName(sort_by) ==
    IF sort_by \in {"name", "domain", "public_rooms_count"} THEN sort_by ELSE "name"

\* match sort_by { "name" .., "domain" .., "public_rooms_count" .., _ => created_at }
SortColumn(sort_by) ==
    IF sort_by \in {"name", "domain", "public_rooms_count"} THEN sort_by ELSE "created_at"

\* if sort_order == "asc" { .asc() } else { .desc() }
Ascending(sort_order) == sort_order = "asc"

\* order of the letters that the sorted columns of the model hold
CharRank(c) == CASE c = "a" -> 1 [] c = "b" -> 2 [] c = "c" -> 3 [] OTHER -> 0

\* text comparison, character by character, a prefix first
RECURSIVE TextLess(_, _)
TextLess(s, t) ==
    IF t = <<>> THEN FALSE
    ELSE IF s = <<>> THEN TRUE
    ELSE IF Head(s) = Head(t) THEN TextLess(Tail(s), Tail(t))
    ELSE CharRank(Head(s)) < CharRank(Head(t))

\* ORDER BY col ASC puts NULL after every value (and DESC, being the reverse,
\* before): NULL compares as the largest
NullsLargest(x, y, less) ==
    IF ~x.some THEN FALSE ELSE IF ~y.some THEN TRUE ELSE less

\* x sorts strictly before y in ascending order of the column
ColumnLess(x, y, col) ==
    CASE col = "name" -> NullsLargest(x.name, y.name, TextLess(x.name.v, y.name.v))
      [] col = "domain" -> TextLess(x.domain, y.domain)
      [] col = "public_rooms_count" ->
           NullsLargest(x.public_rooms_count, y.public_rooms_count,
                        x.public_rooms_count.v < y.public_rooms_count.v)
      [] OTHER -> x.created_at < y.created_at

SortsBefore(x, y, col, asc) == IF asc THEN ColumnLess(x, y, col) ELSE ColumnLess(y, x, col)

Perms(S) ==
    {ord \in [1..Cardinality(S) -> S] : \A i, j \in 1..Cardinality(S) : i # j => ord[i] # ord[j]}

\* the orders in which ORDER BY col may return the rows S: sorted by the column,
\* rows with equal values in any order (the query names no second sort key)
Orderings(rows, S, col, asc) ==
    {ord \in Perms(S) :
       \A i, j \in 1..Cardinality(S) : i < j => ~SortsBefore(rows[ord[j]], rows[ord[i]], col, asc)}

\* .offset(offset).limit(limit)
Paginate(ord, offset, limit) ==
    IF offset >= Len(ord) THEN <<>> ELSE SubSeq(ord, offset + 1, Min(offset + limit, Len(ord)))

\* get_filtered_servers: the results the call can return
get_filtered_servers(rows, f) ==
    LET limit == Clamp(UnwrapOr(f.limit, DefaultLimit), MinLimit, MaxLimit)
        offset == Max(UnwrapOr(f.offset, DefaultOffset), MinOffset)
        sort_by == UnwrapOr(f.sort_by, "created_at")
        sort_order == UnwrapOr(f.sort_order, "desc")
        total == Cardinality({i \in 1..Len(rows) : CountWhere(rows[i], f)})
        S == {i \in 1..Len(rows) : ResultWhere(rows[i], f)}
    IN  {[done |-> TRUE,
          servers |-> [k \in 1..Len(Paginate(ord, offset, limit)) |->
                         rows[Paginate(ord, offset, limit)[k]]],
          total |-> total, limit |-> limit, offset |-> offset] :
           ord \in Orderings(rows, S, SortColumn(sort_by), Ascending(sort_order))}

NoListing == [done |-> FALSE, servers |-> <<>>, total |-> 0, limit |-> 0, offset |-> 0]

\* ServerFilter::default()
DefaultFilter ==
    [search |-> NoneText, registration_open |-> NoneBool, has_rooms |-> NoneBool,
     room_version |-> NoneText, sort_by |-> NoneName, sort_order |-> NoneName,
     limit |-> NoneInt, offset |-> NoneInt]

\* the filters checked: absent and present values, the letter of a search in both
\* cases and a LIKE wildcard, known and unknown sort keys, limits and offsets
\* below, inside and above their ranges
Limits == {NoneInt, Opt(0), Opt(1), Opt(2), Opt(1000)}

Offsets == {NoneInt, Opt(-1), Opt(1), Opt(2)}

Filters ==
    [search : {NoneText, Opt(<<"a">>), Opt(<<"A">>), Opt(<<"_">>)},
     registration_open : {NoneBool, Opt(TRUE), Opt(FALSE)},
     has_rooms : {NoneBool, Opt(TRUE), Opt(FALSE)},
     room_version : {NoneText, Opt(<<"2">>)},
     sort_by : {NoneName, Opt("name"), Opt("domain"), Opt("public_rooms_count"),
                Opt("created_at"), Opt("id")},
     sort_order : {NoneName, Opt("asc"), Opt("desc"), Opt("ASC")},
     limit : Limits,
     offset : Offsets]

\* the tables checked: empty; rows with absent values and two equal names; rows
\* with distinct names and room counts; rows with equal room counts and no name
FilterTables ==
    {<<>>,
     <<ServerRow(1, <<"a">>, NoneText, Opt(<<"A">>), Opt(TRUE), Opt(0), Opt(<<"1">>)),
       ServerRow(2, <<"b">>, Opt(<<"a">>), NoneText, Opt(FALSE), Opt(5), Opt(<<"1", ",", "2">>)),
       ServerRow(3, <<"c">>, Opt(<<"a">>), Opt(<<"b">>), NoneBool, NoneInt, NoneText)>>,
     <<ServerRow(1, <<"a">>, Opt(<<"c">>), NoneText, Opt(TRUE), Opt(0), Opt(<<"2">>)),
       ServerRow(2, <<"b">>, Opt(<<"a">>), NoneText, Opt(TRUE), Opt(50), Opt(<<"2">>)),
       ServerRow(3, <<"c">>, Opt(<<"b">>), NoneText, Opt(FALSE), Opt(5), Opt(<<"1">>))>>,
     <<ServerRow(1, <<"a">>, NoneText, NoneText, NoneBool, Opt(5), NoneText),
       ServerRow(2, <<"b">>, NoneText, NoneText, NoneBool, Opt(5), NoneText)>>}

-----------------------------------------------------------------------------
(* Probe (services.rs) *)

Endpoints == {"capabilities", "public_rooms", "wk_client", "versions", "federation", "wk_server"}

\* what one HTTP request can come to: send() fails (dns, connect, timeout),
\* a non-success status, a success status with a body that does not decode,
\* a success status with a body that decodes
Outcomes == {"transport", "status", "badjson", "ok"}

Some(f) == IF f THEN "some" ELSE "none"

\* get_capabilities: Option, every failure is None
get_capabilities(o) == o = "ok"

\* get_public_rooms_count(..).ok()
get_public_rooms_count(o) == o = "ok"

\* get_server_version(..).ok()
get_server_version(o) == o = "ok"

\* get_federation_version(..).ok()
get_federation_version(o) == o = "ok"

\* fetch_well_known_client_info: send().await? and json().await? are errors,
\* a non-success status is Ok of four None
fetch_well_known_client_info(o) ==
    CASE o = "transport" -> [ok |-> FALSE, set |-> FALSE]
      [] o = "status" -> [ok |-> TRUE, set |-> FALSE]
      [] o = "badjson" -> [ok |-> FALSE, set |-> FALSE]
      [] OTHER -> [ok |-> TRUE, set |-> TRUE]

\* fetch_well_known_server_info: the same shape
fetch_well_known_server_info(o) ==
    CASE o = "transport" -> [ok |-> FALSE, set |-> FALSE]
      [] o = "status" -> [ok |-> TRUE, set |-> FALSE]
      [] o = "badjson" -> [ok |-> FALSE, set |-> FALSE]
      [] OTHER -> [ok |-> TRUE, set |-> TRUE]

NoInfo == [name |-> "none", description |-> "none", logo_url |-> "none", theme |-> "none",
           registration_open |-> "none", public_rooms_count |-> "none", version |-> "none",
           federation_version |-> "none", delegated_server |-> "none", room_versions |-> "none"]

\* discover_server_info: w gives the outcome of the request to each endpoint
discover_server_info(w) ==
    LET capabilities == get_capabilities(w["capabilities"])
        rooms == get_public_rooms_count(w["public_rooms"])
        client == fetch_well_known_client_info(w["wk_client"])
        version == get_server_version(w["versions"])
        federation == get_federation_version(w["federation"])
        server == fetch_well_known_server_info(w["wk_server"])
    IN  IF ~client.ok THEN [ok |-> FALSE, info |-> NoInfo]
        ELSE IF ~server.ok THEN [ok |-> FALSE, info |-> NoInfo]
        ELSE [ok |-> TRUE,
              info |-> [name |-> Some(client.set), description |-> Some(client.set),
                        logo_url |-> Some(client.set), theme |-> Some(client.set),
                        registration_open |-> Some(capabilities),
                        public_rooms_count |-> Some(rooms),
                        version |-> Some(version),
                        federation_version |-> Some(federation),
                        delegated_server |-> Some(server.set),
                        room_versions |-> Some(capabilities)]]

\* a status check that any response passes
check_server_status_any(o) == o # "transport"

\* check_server_status: Ok iff send() succeeded with a success status
check_server_status(o) == o \in {"ok", "badjson"}

AllOk == [e \in Endpoints |-> "ok"]

\* the remote servers a handler of the request model may meet
ApiWorlds == {AllOk, [AllOk EXCEPT !["wk_client"] = "transport"]}

-----------------------------------------------------------------------------
(* Cache (cache.rs) *)

ListKey == <<"servers", ":", "list">>

\* format!("server:info:{}", server)
InfoKey(d) == <<"server", ":", "info", ":">> \o d

IsPrefix(p, s) == Len(p) <= Len(s) /\ \A i \in 1..Len(p) : s[i] = p[i]

\* SCAN MATCH servers:*
MatchesServersPattern(k) == IsPrefix(<<"servers", ":">>, k)

CACHE_TTL_SHORT == 60
CACHE_TTL_MEDIUM == 300

EmptyCache == [k \in {} |-> 0]

\* Cache::get: Ok(value) iff connected and the key is present
CacheHit(k) == connected /\ k \in DOMAIN cache

\* what a cache command comes to: the environment may fail it
CacheOutcomes == IF cacheFaults THEN {"ok", "err"} ELSE {"ok"}

\* a cache whose commands are sent without looking at the connection
CacheResultUnguarded(o) == IF o = "err" THEN "Redis" ELSE "Ok"

\* guard.as_mut().ok_or(CacheError::NotInitialized)?, then the command and its `?`
CacheResult(o) ==
    IF ~connected THEN "NotInitialized" ELSE IF o = "err" THEN "Redis" ELSE "Ok"

\* Cache::get: Ok(parsed) for a key that is present, NotFound for one that is not
CacheGet(k, o) ==
    IF CacheResult(o) # "Ok" THEN CacheResult(o)
    ELSE IF k \in DOMAIN cache THEN "Ok" ELSE "NotFound"

\* a handler that takes no answer of the cache for a hit
IsHitNever(res) == FALSE

\* if let Ok(cached) = state.cache.get(..).await: every Err is a miss
IsHit(res) == res = "Ok"

\* a result that is turned into an error response
DroppedOrError(res, response) ==
    IF res = "Ok" THEN response ELSE [kind |-> "error", error |-> "cache_error"]

\* let _ = state.cache.set(..).await: the Result is dropped, the handler goes on
Dropped(res, response) == response

\* Cache::set: SET key data EX ttl, NotInitialized without a connection.
\* written and rows are history: the invalidations completed and the rows
\* stored when the entry was written.
CacheSet(k, v, ttl) ==
    IF connected
    THEN [x \in DOMAIN cache \cup {k} |->
            IF x = k
            THEN [value |-> v, ttl |-> ttl, written |-> epoch, rows |-> Len(servers)]
            ELSE cache[x]]
    ELSE cache

\* Cache::delete: DEL key
CacheDelete(k) ==
    IF connected THEN [x \in DOMAIN cache \ {k} |-> cache[x]] ELSE cache

\* an invalidation that deletes no key
CacheInvalidateNothing == cache

\* Cache::invalidate_pattern("servers:*"): SCAN to the end, then DEL of the keys
CacheInvalidateServers ==
    IF connected
    THEN [x \in {k \in DOMAIN cache : ~MatchesServersPattern(k)} |-> cache[x]]
    ELSE cache

-----------------------------------------------------------------------------
(* HTTP handlers (routes.rs) *)

\* the domains a request may carry
RequestDomains == {DomA, DomAUp, DomPort}

NoRet == [kind |-> "none"]

ErrorResponse(e) == [kind |-> "error", error |-> e]

NoRow == [id |-> 0, domain |-> DomEmpty, info |-> NoInfo]

\* locals of a handler (info, row, page, filter) and of invalidate_pattern (keys,
\* cursor: the keys SCAN has not covered), and history of what the call did:
\* probed, inserted, rowid (the id its INSERT got), prior (the add_server calls
\* that had succeeded when it arrived), inv (the invalidations completed by its
\* own), stale (it served an entry older than a row whose insert had returned),
\* log (the calls it made and what they returned), before (the remote keys when
\* invalidate_pattern started), scans (its SCAN commands)
InitTmp == [info |-> NoInfo, row |-> NoRow, page |-> <<>>, probed |-> FALSE,
            inserted |-> FALSE, rowid |-> 0, prior |-> {}, inv |-> 0, stale |-> FALSE,
            log |-> <<>>, filter |-> DefaultFilter, before |-> EmptyCache, cursor |-> {},
            keys |-> {}, scans |-> 0]

\* the page of the default filter: every row (fewer than 50), newest first
ListPage(rows) == [i \in 1..Len(rows) |-> rows[Len(rows) + 1 - i].domain]

\* requests arrive in slot order
Arrives(r) == pc[r] = "idle" /\ \A q \in Reqs : q < r => pc[q] # "idle"

SucceededAdds == {q \in Reqs : pc[q] = "done" /\ op[q] = "add_server" /\ ret[q].kind = "ok"}

Finish(r, response) ==
    /\ pc' = [pc EXCEPT ![r] = "done"]
    /\ ret' = [ret EXCEPT ![r] = response]

Goto(r, label) ==
    /\ pc' = [pc EXCEPT ![r] = label]
    /\ UNCHANGED ret

\* one call a handler made to the repository, the probe or the cache, and what
\* it returned
Call(c, o) == [call |-> c, out |-> o]

\* add_server, up to the probe: validation, pool.get, get_server_by_domain
AddServerBegin(r, d) ==
    /\ Arrives(r)
    /\ op' = [op EXCEPT ![r] = "add_server"]
    /\ arg' = [arg EXCEPT ![r] = d]
    /\ IF IsInvalidDomain(d)
       THEN /\ Finish(r, ErrorResponse("invalid_domain"))
            /\ tmp' = [tmp EXCEPT ![r].prior = SucceededAdds]
       ELSE \E pool \in DbOutcomes, query \in DbOutcomes :
              IF pool = "err"
              THEN /\ Finish(r, ErrorResponse("pool_error"))
                   /\ tmp' = [tmp EXCEPT ![r].prior = SucceededAdds,
                                         ![r].log = <<Call("pool.get", "err")>>]
              ELSE /\ tmp' = [tmp EXCEPT
                                ![r].prior = SucceededAdds,
                                ![r].log = <<Call("pool.get", "ok"),
                                             Call("get_server_by_domain",
                                                  IF query = "err" THEN "err"
                                                  ELSE Some(get_server_by_domain(servers, d)))>>]
                   /\ IF query = "ok" /\ get_server_by_domain(servers, d)
                      THEN Finish(r, ErrorResponse("server_exists"))
                      ELSE Goto(r, "probe")
    /\ UNCHANGED <<servers, cache, connected, liftoff, epoch, dbFaults, cacheFaults>>
    /\ UNCHANGED <<configVars, limitVars, discVars, probeVars, filterVars>>

\* add_server: MatrixService::discover_server_info(&request.domain).await
AddServerProbe(r) ==
    /\ pc[r] = "probe" /\ op[r] = "add_server"
    /\ \E w \in ApiWorlds :
         LET found == discover_server_info(w)
         IN  /\ tmp' = [tmp EXCEPT ![r].probed = TRUE, ![r].info = found.info,
                                   ![r].log = Append(@, Call("discover_server_info",
                                                             IF found.ok THEN "ok" ELSE "err"))]
             /\ IF found.ok
                THEN Goto(r, "insert")
                ELSE Finish(r, ErrorResponse("discovery_failed"))
    /\ UNCHANGED <<servers, cache, connected, liftoff, epoch, dbFaults, cacheFaults, op, arg>>
    /\ UNCHANGED <<configVars, limitVars, discVars, probeVars, filterVars>>

\* insert_server, first statement: diesel::insert_into(servers).execute(conn)?
AddServerInsert(r) ==
    /\ pc[r] = "insert" /\ op[r] = "add_server"
    /\ \E o \in DbOutcomes :
         IF o = "err" \/ UniqueViolation(servers, arg[r])
         THEN /\ Finish(r, ErrorResponse("database_error"))
              /\ tmp' = [tmp EXCEPT ![r].log = Append(@, Call("insert", "err"))]
              /\ UNCHANGED servers
         ELSE /\ servers' = InsertRow(servers, arg[r], tmp[r].info)
              /\ tmp' = [tmp EXCEPT ![r].inserted = TRUE, ![r].rowid = Len(servers) + 1,
                                    ![r].log = Append(@, Call("insert", "ok"))]
              /\ Goto(r, "readback")
    /\ UNCHANGED <<cache, connected, liftoff, epoch, dbFaults, cacheFaults, op, arg>>
    /\ UNCHANGED <<configVars, limitVars, discVars, probeVars, filterVars>>

\* insert_server, second statement: servers.order(id.desc()).first(conn)
AddServerReadback(r) ==
    /\ pc[r] = "readback" /\ op[r] = "add_server"
    /\ \E o \in DbOutcomes :
         IF o = "err"
         THEN /\ Finish(r, ErrorResponse("database_error"))
              /\ tmp' = [tmp EXCEPT ![r].log = Append(@, Call("readback", "err"))]
         ELSE /\ tmp' = [tmp EXCEPT ![r].row = LastRow(servers),
                                    ![r].log = Append(@, Call("readback", "ok"))]
              /\ Goto(r, "invalidate")
    /\ UNCHANGED <<servers, cache, connected, liftoff, epoch, dbFaults, cacheFaults, op, arg>>
    /\ UNCHANGED <<configVars, limitVars, discVars, probeVars, filterVars>>

\* add_server: let _ = state.cache.invalidate_pattern("servers:*").await
AddServerInvalidate(r) ==
    /\ pc[r] = "invalidate" /\ op[r] = "add_server"
    /\ \E o \in CacheOutcomes :
         LET res == CacheResult(o)
             next == Dropped(res, NoRet)
         IN  /\ cache' = IF res = "Ok" THEN CacheInvalidateServers ELSE cache
             /\ tmp' = [tmp EXCEPT ![r].inv = epoch + 1,
                                   ![r].log = Append(@, Call("cache.invalidate_pattern", res))]
             /\ IF next = NoRet THEN Goto(r, "delete") ELSE Finish(r, next)
    /\ epoch' = epoch + 1
    /\ UNCHANGED <<servers, connected, liftoff, dbFaults, cacheFaults, op, arg>>
    /\ UNCHANGED <<configVars, limitVars, discVars, probeVars, filterVars>>

\* add_server: let _ = state.cache.delete("server:info:{domain}").await, then Ok
AddServerDelete(r) ==
    /\ pc[r] = "delete" /\ op[r] = "add_server"
    /\ \E o \in CacheOutcomes :
         LET res == CacheResult(o)
         IN  /\ cache' = IF res = "Ok" THEN CacheDelete(InfoKey(arg[r])) ELSE cache
             /\ tmp' = [tmp EXCEPT ![r].log = Append(@, Call("cache.delete", res))]
             /\ Finish(r, Dropped(res, [kind |-> "ok", id |-> tmp[r].row.id,
                                        domain |-> tmp[r].row.domain]))
    /\ UNCHANGED <<servers, connected, liftoff, epoch, dbFaults, cacheFaults, op, arg>>
    /\ UNCHANGED <<configVars, limitVars, discVars, probeVars, filterVars>>

\* ids of the rows whose inserting call (add_server, add_server_to_index) has
\* not yet returned
RowsInFlight ==
    {tmp[q].rowid : q \in {x \in Reqs : op[x] = "add_server"
                                        /\ pc[x] \in {"readback", "invalidate", "delete"}}}
    \cup (IF dpc = "index_readback" THEN {cur.rowid} ELSE {})

\* rows stored after the entry was written whose inserting call has returned
RowsSince(entry) == {i \in 1..Len(servers) : i > entry.rows /\ i \notin RowsInFlight}

\* list_servers: state.cache.get("servers:list").await
ListServersBegin(r) ==
    /\ Arrives(r)
    /\ op' = [op EXCEPT ![r] = "list_servers"]
    /\ \E o \in CacheOutcomes :
         LET res == CacheGet(ListKey, o)
         IN  IF IsHit(res)
             THEN /\ Finish(r, [kind |-> "page", page |-> cache[ListKey].value, cached |-> TRUE])
                  /\ tmp' = [tmp EXCEPT ![r].stale = RowsSince(cache[ListKey]) # {},
                                        ![r].log = <<Call("cache.get", res)>>]
             ELSE /\ Goto(r, "query")
                  /\ tmp' = [tmp EXCEPT ![r].log = <<Call("cache.get", res)>>]
    /\ UNCHANGED <<servers, cache, connected, liftoff, epoch, dbFaults, cacheFaults, arg>>
    /\ UNCHANGED <<configVars, limitVars, discVars, probeVars, filterVars>>

\* list_servers: pool.get and get_filtered_servers with the default filter
ListServersQuery(r) ==
    /\ pc[r] = "query" /\ op[r] = "list_servers"
    /\ \E pool \in DbOutcomes, query \in DbOutcomes :
         IF pool = "err"
         THEN /\ Finish(r, ErrorResponse("pool_error"))
              /\ tmp' = [tmp EXCEPT ![r].log = Append(@, Call("pool.get", "err"))]
         ELSE IF query = "err"
              THEN /\ Finish(r, ErrorResponse("database_error"))
                   /\ tmp' = [tmp EXCEPT ![r].log = @ \o <<Call("pool.get", "ok"),
                                                           Call("get_filtered_servers", "err")>>]
              ELSE /\ tmp' = [tmp EXCEPT ![r].page = ListPage(servers),
                                         ![r].log = @ \o <<Call("pool.get", "ok"),
                                                           Call("get_filtered_servers", "ok")>>]
                   /\ Goto(r, "set")
    /\ UNCHANGED <<servers, cache, connected, liftoff, epoch, dbFaults, cacheFaults, op, arg>>
    /\ UNCHANGED <<configVars, limitVars, discVars, probeVars, filterVars>>

\* list_servers: let _ = state.cache.set("servers:list", &response, 300).await
ListServersSet(r) ==
    /\ pc[r] = "set" /\ op[r] = "list_servers"
    /\ \E o \in CacheOutcomes :
         LET res == CacheResult(o)
         IN  /\ cache' = IF res = "Ok" THEN CacheSet(ListKey, tmp[r].page, CACHE_TTL_MEDIUM)
                         ELSE cache
             /\ tmp' = [tmp EXCEPT ![r].log = Append(@, Call("cache.set", res))]
             /\ Finish(r, Dropped(res, [kind |-> "page", page |-> tmp[r].page,
                                        cached |-> FALSE]))
    /\ UNCHANGED <<servers, connected, liftoff, epoch, dbFaults, cacheFaults, op, arg>>
    /\ UNCHANGED <<configVars, limitVars, discVars, probeVars, filterVars>>

\* what the two requests of server_info to the versions endpoint come to
StatusWorlds == {[version |-> "ok", status |-> "ok", message |-> "none"],
                 [version |-> "ok", status |-> "status", message |-> "none"],
                 [version |-> "transport", status |-> "transport", message |-> "dns"]}

\* the error_type of server_info, by substring of the error's text
ErrorType(s) ==
    IF s.status = "transport" /\ s.message = "dns" THEN "dns_error"
    ELSE IF s.status = "transport" /\ s.message = "connect" THEN "connection_error"
    ELSE "server_error"

ServerInfoView(d, s) ==
    IF check_server_status(s.status)
    THEN [server |-> d, status |-> "online", version |-> Some(get_server_version(s.version)),
          error |-> "none"]
    ELSE [server |-> d, status |-> "offline", version |-> Some(get_server_version(s.version)),
          error |-> ErrorType(s)]

\* server_info: validation, then state.cache.get("server:info:{server}").await
ServerInfoBegin(r, d) ==
    /\ Arrives(r)
    /\ op' = [op EXCEPT ![r] = "server_info"]
    /\ arg' = [arg EXCEPT ![r] = d]
    /\ IF IsInvalidDomain(d)
       THEN Finish(r, ErrorResponse("invalid_server")) /\ UNCHANGED tmp
       ELSE \E o \in CacheOutcomes :
              LET res == CacheGet(InfoKey(d), o)
              IN  /\ tmp' = [tmp EXCEPT ![r].log = <<Call("cache.get", res)>>]
                  /\ IF IsHit(res)
                     THEN Finish(r, [kind |-> "info", info |-> cache[InfoKey(d)].value,
                                     cached |-> TRUE])
                     ELSE Goto(r, "status")
    /\ UNCHANGED <<servers, cache, connected, liftoff, epoch, dbFaults, cacheFaults>>
    /\ UNCHANGED <<configVars, limitVars, discVars, probeVars, filterVars>>

\* server_info: get_server_version(server).await and check_server_status(server).await
ServerInfoProbe(r) ==
    /\ pc[r] = "status" /\ op[r] = "server_info"
    /\ \E s \in StatusWorlds :
         tmp' = [tmp EXCEPT ![r].probed = TRUE, ![r].page = ServerInfoView(arg[r], s),
                            ![r].log = @ \o <<Call("get_server_version", s.version),
                                              Call("check_server_status", s.status)>>]
    /\ Goto(r, "set")
    /\ UNCHANGED <<servers, cache, connected, liftoff, epoch, dbFaults, cacheFaults, op, arg>>
    /\ UNCHANGED <<configVars, limitVars, discVars, probeVars, filterVars>>

\* server_info: let _ = state.cache.set(&cache_key, &result, 60).await
ServerInfoSet(r) ==
    /\ pc[r] = "set" /\ op[r] = "server_info"
    /\ \E o \in CacheOutcomes :
         LET res == CacheResult(o)
         IN  /\ cache' = IF res = "Ok"
                         THEN CacheSet(InfoKey(arg[r]), tmp[r].page, CACHE_TTL_SHORT)
                         ELSE cache
             /\ tmp' = [tmp EXCEPT ![r].log = Append(@, Call("cache.set", res))]
             /\ Finish(r, Dropped(res, [kind |-> "info", info |-> tmp[r].page,
                                        cached |-> FALSE]))
    /\ UNCHANGED <<servers, connected, liftoff, epoch, dbFaults, cacheFaults, op, arg>>
    /\ UNCHANGED <<configVars, limitVars, discVars, probeVars, filterVars>>

\* Option<bool>::map(|b| b.to_string()).unwrap_or_default()
BoolText(o) == IF ~o.some THEN <<>> ELSE IF o.v THEN <<"true">> ELSE <<"false">>

\* Option<String>::as_deref().unwrap_or(""), for a parameter held as one token
NameText(o) == IF o.some THEN <<o.v>> ELSE <<>>

\* format!("servers:search:{}:{}:{}:{}:{}:{}:{}:{}", ..): absent text and absent
\* booleans print as "", an absent limit or offset as 0
SearchKey(f) ==
    <<"servers", ":", "search", ":">>
    \o UnwrapOr(f.search, <<>>) \o <<":">>
    \o BoolText(f.registration_open) \o <<":">>
    \o BoolText(f.has_rooms) \o <<":">>
    \o UnwrapOr(f.room_version, <<>>) \o <<":">>
    \o NameText(f.sort_by) \o <<":">>
    \o NameText(f.sort_order) \o <<":">>
    \o <<ToString(UnwrapOr(f.limit, 0))>> \o <<":">>
    \o <<ToString(UnwrapOr(f.offset, 0))>>

\* the columns of a stored row, for a row the model keeps as the fields the probe
\* set: a field that was set holds one fixed value
Stored(row) ==
    ServerRow(row.id, row.domain,
              IF row.info.name = "some" THEN Opt(<<"n">>) ELSE NoneText,
              IF row.info.description = "some" THEN Opt(<<"d">>) ELSE NoneText,
              IF row.info.registration_open = "some" THEN Opt(TRUE) ELSE NoneBool,
              IF row.info.public_rooms_count = "some" THEN Opt(1) ELSE NoneInt,
              IF row.info.room_versions = "some" THEN Opt(<<"1">>) ELSE NoneText)

\* the PaginatedServersResponse that search_servers builds from the result
SearchPages(rows, f) ==
    {[servers |-> [k \in 1..Len(x.servers) |-> x.servers[k].domain],
      total |-> x.total, limit |-> x.limit, offset |-> x.offset] :
       x \in get_filtered_servers([i \in 1..Len(rows) |-> Stored(rows[i])], f)}

\* search_servers: the cache key, then state.cache.get(&cache_key).await
SearchServersBegin(r, f) ==
    /\ Arrives(r)
    /\ op' = [op EXCEPT ![r] = "search_servers"]
    /\ \E o \in CacheOutcomes :
         LET res == CacheGet(SearchKey(f), o)
         IN  /\ tmp' = [tmp EXCEPT ![r].filter = f, ![r].log = <<Call("cache.get", res)>>]
             /\ IF IsHit(res)
                THEN Finish(r, [kind |-> "page", page |-> cache[SearchKey(f)].value,
                                cached |-> TRUE])
                ELSE Goto(r, "query")
    /\ UNCHANGED <<servers, cache, connected, liftoff, epoch, dbFaults, cacheFaults, arg>>
    /\ UNCHANGED <<configVars, limitVars, discVars, probeVars, filterVars>>

\* search_servers: pool.get and get_filtered_servers with the request's filter
SearchServersQuery(r) ==
    /\ pc[r] = "query" /\ op[r] = "search_servers"
    /\ \E pool \in DbOutcomes, query \in DbOutcomes :
         IF pool = "err"
         THEN /\ Finish(r, ErrorResponse("pool_error"))
              /\ tmp' = [tmp EXCEPT ![r].log = Append(@, Call("pool.get", "err"))]
         ELSE IF query = "err"
              THEN /\ Finish(r, ErrorResponse("database_error"))
                   /\ tmp' = [tmp EXCEPT ![r].log = @ \o <<Call("pool.get", "ok"),
                                                           Call("get_filtered_servers", "err")>>]
              ELSE /\ \E page \in SearchPages(servers, tmp[r].filter) :
                        tmp' = [tmp EXCEPT ![r].page = page,
                                           ![r].log = @ \o <<Call("pool.get", "ok"),
                                                             Call("get_filtered_servers", "ok")>>]
                   /\ Goto(r, "set")
    /\ UNCHANGED <<servers, cache, connected, liftoff, epoch, dbFaults, cacheFaults, op, arg>>
    /\ UNCHANGED <<configVars, limitVars, discVars, probeVars, filterVars>>

\* search_servers: let _ = state.cache.set(&cache_key, &response, 60).await
SearchServersSet(r) ==
    /\ pc[r] = "set" /\ op[r] = "search_servers"
    /\ \E o \in CacheOutcomes :
         LET res == CacheResult(o)
         IN  /\ cache' = IF res = "Ok"
                         THEN CacheSet(SearchKey(tmp[r].filter), tmp[r].page, CACHE_TTL_SHORT)
                         ELSE cache
             /\ tmp' = [tmp EXCEPT ![r].log = Append(@, Call("cache.set", res))]
             /\ Finish(r, Dropped(res, [kind |-> "page", page |-> tmp[r].page,
                                        cached |-> FALSE]))
    /\ UNCHANGED <<servers, connected, liftoff, epoch, dbFaults, cacheFaults, op, arg>>
    /\ UNCHANGED <<configVars, limitVars, discVars, probeVars, filterVars>>

Request(r) ==
    \/ \E d \in RequestDomains : AddServerBegin(r, d)
    \/ AddServerProbe(r)
    \/ AddServerInsert(r)
    \/ AddServerReadback(r)
    \/ AddServerInvalidate(r)
    \/ AddServerDelete(r)
    \/ ListServersBegin(r)
    \/ ListServersQuery(r)
    \/ ListServersSet(r)
    \/ \E d \in RequestDomains : ServerInfoBegin(r, d)
    \/ ServerInfoProbe(r)
    \/ ServerInfoSet(r)

-----------------------------------------------------------------------------
(* Domains taken from public-room metadata (federation_discovery.rs) *)

\* the position of the first c of s
FirstIndex(s, c) == CHOOSE i \in 1..Len(s) : s[i] = c /\ \A j \in 1..(i - 1) : s[j] # c

\* the position of the last c of s
LastIndex(s, c) == CHOOSE i \in 1..Len(s) : s[i] = c /\ \A j \in (i + 1)..Len(s) : s[j] # c

\* the part after the last ':'
extract_domain_from_mxid_rsplit(mxid) ==
    IF Len(mxid) > 0 /\ mxid[1] = "@" /\ Contains(mxid, ":")
    THEN Opt(SubSeq(mxid, LastIndex(mxid, ":") + 1, Len(mxid)))
    ELSE NoneText

\* extract_domain_from_mxid: for an mxid that starts with '@', splitn(2, ':')
\* gives two parts when there is a ':', and the second part is returned
extract_domain_from_mxid(mxid) ==
    IF Len(mxid) > 0 /\ mxid[1] = "@" /\ Contains(mxid, ":")
    THEN Opt(SubSeq(mxid, FirstIndex(mxid, ":") + 1, Len(mxid)))
    ELSE NoneText

\* the character classes of the pattern, on the characters of the model:
\* [a-zA-Z], [a-zA-Z0-9] and [-a-zA-Z0-9]
Alpha == {"a", "b", "A", "B", "o", "n", "i"}
Alnum == Alpha \cup {"8"}
Label == Alnum \cup {"-"}

\* the end of the longest run of characters of class C that starts at i (i - 1
\* when s[i] is not of the class)
RECURSIVE RunEnd(_, _, _)
RunEnd(s, i, C) == IF i <= Len(s) /\ s[i] \in C THEN RunEnd(s, i + 1, C) ELSE i - 1

\* the end of the match of [a-zA-Z0-9][-a-zA-Z0-9]*\.[a-zA-Z]{2,}[/:]? that
\* starts at i, 0 when there is none: every quantifier is greedy and nothing
\* after it can fail, so the match is the longest one
MatchEnd(s, i) ==
    IF ~(i <= Len(s) /\ s[i] \in Alnum) THEN 0
    ELSE LET dot == RunEnd(s, i + 1, Label) + 1
             tld == RunEnd(s, dot + 1, Alpha)
         IN  IF ~(dot <= Len(s) /\ s[dot] = ".") \/ tld - dot < 2 THEN 0
             ELSE IF tld + 1 <= Len(s) /\ s[tld + 1] \in {"/", ":"} THEN tld + 1 ELSE tld

\* find_iter: the non-overlapping matches from position i on, leftmost first
RECURSIVE FindIter(_, _)
FindIter(s, i) ==
    IF i > Len(s) THEN <<>>
    ELSE IF MatchEnd(s, i) = 0 THEN FindIter(s, i + 1)
    ELSE <<SubSeq(s, i, MatchEnd(s, i))>> \o FindIter(s, MatchEnd(s, i) + 1)

\* str::trim_end_matches(c)
RECURSIVE TrimEnd(_, _)
TrimEnd(s, c) ==
    IF Len(s) > 0 /\ s[Len(s)] = c THEN TrimEnd(SubSeq(s, 1, Len(s) - 1), c) ELSE s

IsSuffix(p, s) == Len(p) <= Len(s) /\ SubSeq(s, Len(s) - Len(p) + 1, Len(s)) = p

Onion == <<".", "o", "n", "i", "o", "n">>

\* extract_domains_from_text: every match with its trailing '/' trimmed, kept
\* when it contains '.' and does not end with ".onion"
extract_domains_from_text(text) ==
    LET trimmed == [k \in DOMAIN FindIter(text, 1) |-> TrimEnd(FindIter(text, 1)[k], "/")]
    IN  SelectSeq(trimmed, LAMBDA d : Contains(d, ".") /\ ~IsSuffix(Onion, d))

-----------------------------------------------------------------------------
(* Discovery engine (federation_discovery.rs) *)

\* FederationDiscovery::new: the defaults of the configuration
DefaultMaxConcurrent == 5
DefaultMaxDepth == 3
DefaultBatchSize == 100

\* largest max_concurrent and batch_size of the configurations checked
MaxConcurrent == 2
MaxBatch == 2

\* an element of json["chunk"]: the mxids of its heroes and its topic
Room(heroes, topic) == [heroes |-> heroes, topic |-> topic]

\* discover_servers_from_public_rooms: the domain of every hero's mxid and the
\* domains in every topic, over the rooms of an answer
PeersOfRooms(rooms) ==
    UNION {{extract_domain_from_mxid(h).v :
              h \in {x \in room.heroes : extract_domain_from_mxid(x).some}}
           \cup Elems(extract_domains_from_text(UnwrapOr(room.topic, <<>>))) : room \in rooms}

\* the domains public-room metadata may name
PeerUniverse == PeersOfRooms(chunk)

\* rooms with a hero on a and a hero on b
PlainChunk == {Room({<<"@", "u", ":", "a">>}, NoneText), Room({<<"@", "u", ":", "b">>}, NoneText)}

\* the configurations checked: small max_concurrent and batch_size so that both
\* limits bind, the default depth (two domains are exhausted before it), and the
\* depths 1 and 0, which end the run on a non-empty frontier
Configs ==
    {[max_concurrent |-> 1, max_depth |-> DefaultMaxDepth, batch_size |-> MaxBatch,
      seed_servers |-> <<DomA, DomB>>],
     [max_concurrent |-> MaxConcurrent, max_depth |-> DefaultMaxDepth, batch_size |-> 1,
      seed_servers |-> <<DomA, DomB>>],
     [max_concurrent |-> MaxConcurrent, max_depth |-> DefaultMaxDepth, batch_size |-> MaxBatch,
      seed_servers |-> <<DomA>>],
     [max_concurrent |-> 0, max_depth |-> DefaultMaxDepth, batch_size |-> MaxBatch,
      seed_servers |-> <<DomA>>],
     [max_concurrent |-> MaxConcurrent, max_depth |-> 1, batch_size |-> MaxBatch,
      seed_servers |-> <<DomA>>],
     [max_concurrent |-> MaxConcurrent, max_depth |-> 0, batch_size |-> MaxBatch,
      seed_servers |-> <<DomA>>]}

Timeout == [ok |-> FALSE, peers |-> {}, error |-> "Timeout"]

\* discover_servers_from_public_rooms(server): a transport or decode error, or the
\* domains extracted from the rooms the answer lists, the origin server left out
PeerResults(server) ==
    {[ok |-> FALSE, peers |-> {}, error |-> "request"]}
    \cup {[ok |-> TRUE, peers |-> PeersOfRooms(rooms) \ {server}, error |-> "none"] :
            rooms \in SUBSET chunk}

\* server_exists_in_db: Ok(count > 0)
server_exists_in_db(rows, d) == Cardinality(RowsByDomain(rows, d)) > 0

\* Vec::truncate(batch_size) when longer
Truncate(v, n) == IF Len(v) > n THEN SubSeq(v, 1, n) ELSE v

InFlight == {i \in DOMAIN probe : probe[i] \in {"waiting", "inflight"}}

Queued == {i \in DOMAIN probe : probe[i] = "queued"}

\* a round whose results are dropped when one of them is an error
PeersOfCleanRound(i) ==
    IF i \in DOMAIN results /\ \A j \in DOMAIN results : results[j].result.ok
    THEN results[i].result.peers ELSE {}

\* the result loop: Ok(new_servers) yields its peers, Err(e) is logged
PeersOf(i) == IF i \in DOMAIN results /\ results[i].result.ok THEN results[i].result.peers ELSE {}

\* locals of the latest add_server_to_index call, and the id its INSERT got
NoCur == [domain |-> DomEmpty, info |-> NoInfo, rowid |-> 0]

\* a limit one too large
ConcurrencyLimitPlusOne == max_concurrent + 1

\* Semaphore::new(self.max_concurrent) and buffer_unordered(self.max_concurrent)
ConcurrencyLimit == max_concurrent

\* for _depth in 0..max_depth: break on an empty frontier, else a new semaphore
\* and the stream of the round's probes
DiscRound ==
    /\ dpc = "loop"
    /\ IF depth < max_depth /\ servers_to_check # <<>>
       THEN /\ permits' = ConcurrencyLimit
            /\ probe' = [i \in 1..Len(servers_to_check) |-> "queued"]
            /\ rounds' = Append(rounds, servers_to_check)
            /\ dpc' = "collect"
       ELSE /\ dpc' = "done"
            /\ UNCHANGED <<permits, probe, rounds>>
    /\ results' = <<>>
    /\ UNCHANGED <<depth, discovered, servers_to_check, added_count, ri, pending, cur,
                   runRows, atStart, seenAt>>
    /\ UNCHANGED <<apiVars, configVars, limitVars, probeVars, filterVars>>

\* buffer_unordered(max_concurrent) polls the next future of the stream: it takes
\* a permit and sends its request, or waits for a permit
ProbeStart(i) ==
    /\ dpc = "collect"
    /\ i \in Queued /\ \A j \in Queued : i <= j
    /\ Cardinality(InFlight) < ConcurrencyLimit
    /\ IF permits > 0
       THEN probe' = [probe EXCEPT ![i] = "inflight"] /\ permits' = permits - 1
       ELSE probe' = [probe EXCEPT ![i] = "waiting"] /\ UNCHANGED permits
    /\ UNCHANGED <<dpc, depth, discovered, servers_to_check, added_count, results, ri,
                   pending, cur, rounds, runRows, atStart, seenAt>>
    /\ UNCHANGED <<apiVars, configVars, limitVars, probeVars, filterVars>>

\* a probe's request returns, or its 10 s timeout fires; _permit is dropped
ProbeFinish(i) ==
    /\ dpc = "collect"
    /\ probe[i] = "inflight"
    /\ \E res \in PeerResults(servers_to_check[i]) \cup {Timeout} :
         results' = Append(results, [server |-> servers_to_check[i], result |-> res])
    /\ probe' = [probe EXCEPT ![i] = "finished"]
    /\ permits' = permits + 1
    /\ UNCHANGED <<dpc, depth, discovered, servers_to_check, added_count, ri, pending, cur,
                   rounds, runRows, atStart, seenAt>>
    /\ UNCHANGED <<apiVars, configVars, limitVars, probeVars, filterVars>>

\* a stream that ends with the first result
CollectedFirst == \E i \in DOMAIN probe : probe[i] = "finished"

\* .collect().await returns when the buffered stream has yielded every result
Collected == \A i \in DOMAIN probe : probe[i] = "finished"

\* collect() is complete: servers_to_check.clear() and the loop over results
DiscCollected ==
    /\ dpc = "collect"
    /\ Collected
    /\ servers_to_check' = <<>>
    /\ ri' = 1
    /\ pending' = PeersOf(1)
    /\ dpc' = "process"
    /\ UNCHANGED <<depth, discovered, added_count, permits, probe, results, cur, rounds,
                   runRows, atStart, seenAt>>
    /\ UNCHANGED <<apiVars, configVars, limitVars, probeVars, filterVars>>

\* the inner loop takes the next peer of the HashSet (in any order): a peer not
\* yet in discovered is recorded, pushed and handed to add_server_to_index, which
\* validates it and runs server_exists_in_db
DiscNextPeer ==
    /\ dpc = "process"
    /\ ri <= Len(results)
    /\ \E p \in pending :
         /\ pending' = pending \ {p}
         /\ IF p \in discovered
            THEN UNCHANGED <<discovered, servers_to_check, dpc, cur, seenAt>>
            ELSE /\ discovered' = discovered \cup {p}
                 /\ seenAt' = seenAt \cup {<<p, depth>>}
                 /\ servers_to_check' = Append(servers_to_check, p)
                 /\ IF IsInvalidDomain(p)
                    THEN UNCHANGED <<dpc, cur>>
                    ELSE \E query \in DbOutcomes :
                           IF query = "ok" /\ server_exists_in_db(servers, p)
                           THEN UNCHANGED <<dpc, cur>>
                           ELSE /\ dpc' = "index_probe"
                                /\ cur' = [NoCur EXCEPT !.domain = p]
    /\ UNCHANGED <<depth, added_count, permits, probe, results, ri, rounds, runRows, atStart>>
    /\ UNCHANGED <<apiVars, configVars, limitVars, probeVars, filterVars>>

\* the outer loop moves to the next (server, result) pair
DiscNextResult ==
    /\ dpc = "process"
    /\ ri <= Len(results)
    /\ pending = {}
    /\ ri' = ri + 1
    /\ pending' = PeersOf(ri + 1)
    /\ UNCHANGED <<dpc, depth, discovered, servers_to_check, added_count, permits, probe,
                   results, cur, rounds, runRows, atStart, seenAt>>
    /\ UNCHANGED <<apiVars, configVars, limitVars, probeVars, filterVars>>

\* the round ends: truncate to batch_size, next _depth
DiscRoundEnd ==
    /\ dpc = "process"
    /\ ri > Len(results)
    /\ servers_to_check' = Truncate(servers_to_check, batch_size)
    /\ depth' = depth + 1
    /\ dpc' = "loop"
    /\ UNCHANGED <<discovered, added_count, permits, probe, results, ri, pending, cur,
                   rounds, runRows, atStart, seenAt>>
    /\ UNCHANGED <<apiVars, configVars, limitVars, probeVars, filterVars>>

\* add_server_to_index: MatrixService::discover_server_info(domain).await
IndexProbe ==
    /\ dpc = "index_probe"
    /\ \E w \in ApiWorlds :
         LET info == discover_server_info(w)
         IN  IF info.ok
             THEN dpc' = "index_insert" /\ cur' = [cur EXCEPT !.info = info.info]
             ELSE dpc' = "process" /\ UNCHANGED cur
    /\ UNCHANGED <<depth, discovered, servers_to_check, added_count, permits, probe, results,
                   ri, pending, rounds, runRows, atStart, seenAt>>
    /\ UNCHANGED <<apiVars, configVars, limitVars, probeVars, filterVars>>

\* true on both arms
IndexReturnTrue(inserted) == TRUE

\* add_server_to_index: match insert_server(..) { Ok(_) => true, Err(e) => false }
IndexReturn(inserted) == inserted

\* if self.add_server_to_index(&new_server).await { added_count += 1 }
Count(added) == IF added THEN 1 ELSE 0

\* add_server_to_index: db_pool.get, then the INSERT of insert_server
IndexInsert ==
    /\ dpc = "index_insert"
    /\ \E pool \in DbOutcomes, o \in DbOutcomes :
         IF pool = "err" \/ o = "err" \/ UniqueViolation(servers, cur.domain)
         THEN /\ dpc' = "process"
              /\ added_count' = added_count + Count(IndexReturn(FALSE))
              /\ UNCHANGED <<servers, runRows, cur>>
         ELSE /\ servers' = InsertRow(servers, cur.domain, cur.info)
              /\ runRows' = runRows \cup {Len(servers) + 1}
              /\ cur' = [cur EXCEPT !.rowid = Len(servers) + 1]
              /\ dpc' = "index_readback"
              /\ UNCHANGED added_count
    /\ UNCHANGED <<depth, discovered, servers_to_check, permits, probe, results,
                   ri, pending, rounds, atStart, seenAt>>
    /\ UNCHANGED <<cache, connected, liftoff, epoch, dbFaults, cacheFaults, pc, op, arg, ret, tmp>>
    /\ UNCHANGED <<configVars, limitVars, probeVars, filterVars>>

\* add_server_to_index: the read-back of insert_server, then true or false;
\* start_discovery counts a true
IndexReadback ==
    /\ dpc = "index_readback"
    /\ \E o \in DbOutcomes :
         added_count' = added_count + Count(IndexReturn(o = "ok"))
    /\ dpc' = "process"
    /\ UNCHANGED <<depth, discovered, servers_to_check, permits, probe, results, ri, pending,
                   cur, rounds, runRows, atStart, seenAt>>
    /\ UNCHANGED <<apiVars, configVars, limitVars, probeVars, filterVars>>

Discovery ==
    \/ DiscRound
    \/ \E i \in DOMAIN probe : ProbeStart(i)
    \/ \E i \in DOMAIN probe : ProbeFinish(i)
    \/ DiscCollected
    \/ DiscNextPeer
    \/ DiscNextResult
    \/ DiscRoundEnd
    \/ IndexProbe
    \/ IndexInsert
    \/ IndexReadback

\* no discovery run
InitNoRun ==
    /\ max_concurrent = DefaultMaxConcurrent
    /\ max_depth = DefaultMaxDepth
    /\ batch_size = DefaultBatchSize
    /\ seed_servers = <<>>
    /\ chunk = {}
    /\ dpc = "off"
    /\ depth = 0
    /\ discovered = {}
    /\ servers_to_check = <<>>
    /\ added_count = 0
    /\ permits = 0
    /\ probe = <<>>
    /\ results = <<>>
    /\ ri = 0
    /\ pending = {}
    /\ cur = NoCur
    /\ rounds = <<>>
    /\ runRows = {}
    /\ atStart = {}
    /\ seenAt = {}

InitNoProbe ==
    /\ world = AllOk
    /\ probeResult = [ok |-> FALSE, info |-> NoInfo, done |-> FALSE]

InitNoFilter ==
    /\ table = <<>>
    /\ filter = DefaultFilter
    /\ listing = NoListing

\* no rate limiter
InitNoLimiter ==
    /\ limiter = [some |-> FALSE, requests_per_minute |-> 0, from |-> "none"]
    /\ client_requests = <<>>
    /\ clock = 0
    /\ checks = <<>>

InitApi ==
    /\ servers = <<>>
    /\ cache = EmptyCache
    /\ connected \in BOOLEAN
    /\ liftoff = "done"
    /\ epoch = 0
    /\ dbFaults = FALSE
    /\ cacheFaults = FALSE
    /\ pc = [r \in Reqs |-> "idle"]
    /\ op = [r \in Reqs |-> "none"]
    /\ arg = [r \in Reqs |-> DomEmpty]
    /\ ret = [r \in Reqs |-> NoRet]
    /\ tmp = [r \in Reqs |-> InitTmp]

Init == InitApi /\ InitNoRun /\ InitNoProbe /\ InitNoFilter /\ InitNoLimiter

Next == \E r \in Reqs : Request(r)

Spec == Init /\ [][Next]_vars

-----------------------------------------------------------------------------
(* A discovery run beside add_server and list_servers requests *)

\* number of HTTP requests beside a discovery run
DiscReqs == 1

Row(i, d) == [id |-> i, domain |-> d, info |-> discover_server_info(AllOk).info]

\* servers:list as an earlier list_servers left it
ListCached(rows) ==
    [k \in {ListKey} |-> [value |-> ListPage(rows), ttl |-> CACHE_TTL_MEDIUM, written |-> 0,
                          rows |-> Len(rows)]]

InitialRepos == {<<>>, <<Row(1, DomB)>>}

InitRunOver(rooms, configs) ==
    /\ servers \in InitialRepos
    /\ connected = TRUE
    /\ liftoff = "done"
    /\ epoch = 0
    /\ cache \in {EmptyCache, ListCached(servers)}
    /\ dbFaults = FALSE
    /\ cacheFaults = FALSE
    /\ pc = [r \in Reqs |-> IF r <= DiscReqs THEN "idle" ELSE "unused"]
    /\ op = [r \in Reqs |-> "none"]
    /\ arg = [r \in Reqs |-> DomEmpty]
    /\ ret = [r \in Reqs |-> NoRet]
    /\ tmp = [r \in Reqs |-> InitTmp]
    /\ chunk = rooms
    /\ \E c \in configs :
         /\ max_concurrent = c.max_concurrent
         /\ max_depth = c.max_depth
         /\ batch_size = c.batch_size
         /\ seed_servers = c.seed_servers
    /\ dpc = "loop"
    /\ depth = 0
    /\ discovered = {}
    /\ servers_to_check = seed_servers
    /\ added_count = 0
    /\ permits = 0
    /\ probe = <<>>
    /\ results = <<>>
    /\ ri = 0
    /\ pending = {}
    /\ cur = NoCur
    /\ rounds = <<>>
    /\ runRows = {}
    /\ atStart = {servers[i].domain : i \in 1..Len(servers)}
    /\ seenAt = {}
    /\ InitNoProbe
    /\ InitNoFilter
    /\ InitNoLimiter

InitDiscovery == InitRunOver(PlainChunk, Configs)

DiscRequest(r) ==
    \/ \E d \in PeerUniverse : AddServerBegin(r, d)
    \/ AddServerProbe(r)
    \/ AddServerInsert(r)
    \/ AddServerReadback(r)
    \/ AddServerInvalidate(r)
    \/ AddServerDelete(r)
    \/ ListServersBegin(r)
    \/ ListServersQuery(r)
    \/ ListServersSet(r)

NextDiscovery == Discovery \/ \E r \in Reqs : DiscRequest(r)

SpecDiscovery == InitDiscovery /\ [][NextDiscovery]_vars

\* rooms as servers of the federation list them: a hero whose server name
\* carries a port, a hero without server name, and topics that name a domain
\* followed by ':' or by '/'
PeerChunks ==
    {PlainChunk,
     {Room({<<"@", "u", ":", "a", ":", "8">>}, NoneText), Room({<<"@", "u", ":", "b">>}, NoneText)},
     {Room({<<"@", "u", ":">>}, NoneText)},
     {Room({}, Opt(<<"a", ".", "a", "a", ":">>))},
     {Room({}, Opt(<<"b", ".", "a", "a", "/">>))}}

InitPeers == \E rooms \in PeerChunks : InitRunOver(rooms, Configs)

NextRun == Discovery

SpecRun == InitDiscovery /\ [][NextRun]_vars

\* the configurations of Configs, and a run with batch_size = 0 and a run whose
\* seed list is FEDERATION_SEED_SERVERS="" (split(',') gives one empty string)
TerminateConfigs ==
    Configs
    \cup {[max_concurrent |-> MaxConcurrent, max_depth |-> DefaultMaxDepth, batch_size |-> 0,
           seed_servers |-> <<DomA>>],
          [max_concurrent |-> 1, max_depth |-> DefaultMaxDepth, batch_size |-> MaxBatch,
           seed_servers |-> <<DomEmpty>>]}

InitTerminate == InitRunOver(PlainChunk, TerminateConfigs)

\* a run alone whose requests and repository calls all return or time out
SpecTerminate == InitTerminate /\ [][NextRun]_vars /\ WF_vars(NextRun)

\* a run alone, over the rooms of PeerChunks
SpecPeers == InitPeers /\ [][NextRun]_vars

\* the executor polls a future that can make progress, and a peer probe ends by
\* its response or by its 10 s timeout: an enabled step of the run is taken
SpecRunFair == SpecRun /\ WF_vars(NextRun)

-----------------------------------------------------------------------------
(* discover_server_info on every combination of endpoint outcomes *)

NotProbed == [ok |-> FALSE, info |-> NoInfo, done |-> FALSE]

InitProbe ==
    /\ InitApi
    /\ InitNoRun
    /\ InitNoLimiter
    /\ world \in [Endpoints -> Outcomes]
    /\ probeResult = NotProbed
    /\ InitNoFilter

RunProbe ==
    /\ ~probeResult.done
    /\ probeResult' = [ok |-> discover_server_info(world).ok,
                       info |-> discover_server_info(world).info, done |-> TRUE]
    /\ UNCHANGED <<world, apiVars, configVars, limitVars, discVars, filterVars>>

NextProbe == RunProbe

SpecProbe == InitProbe /\ [][NextProbe]_vars

-----------------------------------------------------------------------------
(* The fields discover_server_info takes from the bodies of the capabilities *)
(* and publicRooms answers                                                  *)

I32Max == 2147483647

\* an i64 held as its 32-bit words: hi * 2^32 + b * 2^31 + l, with hi the signed
\* high word, b the top bit of the low word and l its other 31 bits
I64(hi, b, l) == [hi |-> hi, b |-> b, l |-> l]

NoneI64 == [some |-> FALSE, v |-> I64(0, 0, 0)]

\* `as i32` on an i64: the low 32 bits, read as a signed number
AsI32(x) == IF x.b = 1 THEN (x.l - I32Max) - 1 ELSE x.l

\* what a request and the decoding of its body come to, with the decoded body
Reply(o, body) == [outcome |-> o, body |-> body]

\* get_public_rooms_count: Err unless the answer has a success status and decodes,
\* then total_room_count_estimate.unwrap_or(0) as i32; discover_server_info
\* keeps it with .ok()
public_rooms_count(reply) ==
    IF reply.outcome # "ok" THEN NoneInt
    ELSE Opt(AsI32(UnwrapOr(reply.body.total_room_count_estimate, I64(0, 0, 0))))

\* a JSON value in the place of m.room_versions.available
Json(kind, items) == [kind |-> kind, items |-> items]

\* a capabilities body: which objects are present, enabled, and available
CapabilitiesBody(caps, cp, enabled, rv, available) ==
    [capabilities |-> caps, change_password |-> caps /\ cp, enabled |-> enabled,
     room_versions |-> caps /\ rv, available |-> available]

\* serde on CapabilitiesResponse: every field is an Option, and available is an
\* Option<Vec<String>>, which a JSON null or array of strings decodes to
Decodes(body) == body.room_versions => body.available.kind \in {"absent", "list"}

\* get_capabilities: Some(response) for a success status whose body decodes
\* (response.json().await.ok()), None otherwise
capabilities_of(reply) == reply.outcome = "ok" /\ Decodes(reply.body)

\* .and_then(|c| c.capabilities).and_then(|c| c.change_password).and_then(|c| c.enabled)
registration_open(reply) ==
    IF capabilities_of(reply) /\ reply.body.capabilities /\ reply.body.change_password
    THEN reply.body.enabled ELSE NoneBool

\* Vec<String>::join(",")
RECURSIVE Join(_)
Join(v) ==
    IF v = <<>> THEN <<>>
    ELSE IF Len(v) = 1 THEN <<v[1]>>
    ELSE <<v[1], ",">> \o Join(Tail(v))

\* .and_then(|c| c.room_versions).and_then(|r| r.available).map(|v| v.join(","))
room_versions(reply) ==
    IF /\ capabilities_of(reply) /\ reply.body.capabilities /\ reply.body.room_versions
       /\ reply.body.available.kind = "list"
    THEN Opt(Join(reply.body.available.items)) ELSE NoneText

NoAvailable == Json("absent", <<>>)

NoCapabilitiesBody == CapabilitiesBody(FALSE, FALSE, NoneBool, FALSE, NoAvailable)

\* answers of the capabilities endpoint: the failures, and bodies with each
\* object absent or present, enabled absent, true or false, and available
\* absent, an array (empty, or "6" and "9") or a mapping keyed by "6" and "9"
CapabilitiesReplies ==
    {Reply(o, NoCapabilitiesBody) : o \in Outcomes \ {"ok"}}
    \cup {Reply("ok", NoCapabilitiesBody)}
    \cup {Reply("ok", CapabilitiesBody(TRUE, cp, IF cp THEN en ELSE NoneBool,
                                       rv, IF rv THEN av ELSE NoAvailable)) :
            cp \in BOOLEAN, en \in {NoneBool, Opt(TRUE), Opt(FALSE)}, rv \in BOOLEAN,
            av \in {NoAvailable, Json("list", <<>>), Json("list", <<"6", "9">>),
                    Json("map", <<"6", "9">>)}}

NoRoomsBody == [total_room_count_estimate |-> NoneI64]

\* answers of publicRooms?limit=1: the failures, a body without the estimate,
\* and estimates below, inside and above the range of i32
PublicRoomsReplies ==
    {Reply(o, NoRoomsBody) : o \in Outcomes \ {"ok"}}
    \cup {Reply("ok", NoRoomsBody)}
    \cup {Reply("ok", [total_room_count_estimate |-> Opt(I64(hi, b, l))]) :
            hi \in {-1, 0, 1}, b \in {0, 1}, l \in {0, 42, I32Max}}

NotDecoded == [done |-> FALSE, registration_open |-> NoneBool, room_versions |-> NoneText,
               public_rooms_count |-> NoneInt]

InitDecode ==
    /\ InitApi
    /\ connected = FALSE
    /\ InitNoRun
    /\ InitNoLimiter
    /\ InitNoFilter
    /\ world \in [capabilities : CapabilitiesReplies, public_rooms : PublicRoomsReplies]
    /\ probeResult = NotDecoded

\* discover_server_info, for the three fields it takes from the two answers
RunDecode ==
    /\ ~probeResult.done
    /\ probeResult' = [done |-> TRUE,
                       registration_open |-> registration_open(world.capabilities),
                       room_versions |-> room_versions(world.capabilities),
                       public_rooms_count |-> public_rooms_count(world.public_rooms)]
    /\ UNCHANGED <<world, apiVars, configVars, limitVars, discVars, filterVars>>

NextDecode == RunDecode

SpecDecode == InitDecode /\ [][NextDecode]_vars

-----------------------------------------------------------------------------
(* extract_domain_from_mxid and extract_domains_from_text on every short text *)

\* longest text of the enumeration
MaxText == 4

TextChars == {"@", ":", "a", ".", "/"}

\* "@a:a.aa", the shape of @alice:example.org
MxidExample == <<"@", "a", ":", "a", ".", "a", "a">>

\* an mxid whose server name carries a port, and topics that name a domain
\* followed by ':' or '/', an onion address, and two domains
Texts ==
    UNION {[1..k -> TextChars] : k \in 0..MaxText}
    \cup {MxidExample,
          <<"@", "a", ":", "a", ".", "a", "a", ":", "8">>,
          <<"a", ".", "a", "a", ":">>,
          <<"a", ".", "a", "a", "/">>,
          <<"a", ".", "o", "n", "i", "o", "n">>,
          <<"a", ".", "a", "a", ":", " ", "b", "-", ".", "a", "b", "/", "/">>}

NotExtracted == [done |-> FALSE, domain |-> NoneText, domains |-> <<>>]

InitExtract ==
    /\ InitApi
    /\ connected = FALSE
    /\ InitNoRun
    /\ InitNoLimiter
    /\ InitNoFilter
    /\ world \in Texts
    /\ probeResult = NotExtracted

\* both functions applied to the text
RunExtract ==
    /\ ~probeResult.done
    /\ probeResult' = [done |-> TRUE,
                       domain |-> extract_domain_from_mxid(world),
                       domains |-> extract_domains_from_text(world)]
    /\ UNCHANGED <<world, apiVars, configVars, limitVars, discVars, filterVars>>

NextExtract == RunExtract

SpecExtract == InitExtract /\ [][NextExtract]_vars

-----------------------------------------------------------------------------
(* Rate limiter (rate_limit.rs): check called directly *)

\* Duration::from_secs(60) of check, and the default of RATE_LIMIT_PER_MINUTE
WindowSecs == 60
DefaultRate == 60

\* the clock advances in steps of half a window, up to MaxClock seconds
Tick == WindowSecs \div 2
MaxClock == 150

\* number of check calls of one behaviour, and largest limit built with new
MaxChecks == 5
MaxRate == 2

Clients == {"c1", "c2"}

\* RATE_LIMIT_PER_MINUTE: unset, or its text
RateEnvs == {"unset", "0", "1", "2", "x"}

\* str::parse::<u32>, on the texts of the model
ParseU32(v) == CASE v = "0" -> Opt(0) [] v = "1" -> Opt(1) [] v = "2" -> Opt(2) [] OTHER -> NoneInt

\* RateLimiterState::new, as the managed value
RateLimiterNew(n, from) == [some |-> TRUE, requests_per_minute |-> n, from |-> from]

\* rate_limiter_from_config: the parsed variable or 60; a limiter if it is > 0
rate_limiter_from_config(env) ==
    LET requests_per_minute ==
            IF env = "unset" THEN DefaultRate ELSE UnwrapOr(ParseU32(env), DefaultRate)
    IN  IF requests_per_minute > 0 THEN RateLimiterNew(requests_per_minute, env)
        ELSE [some |-> FALSE, requests_per_minute |-> 0, from |-> env]

\* a limiter that is never disabled
DisabledNever(n) == FALSE

\* check: if self.requests_per_minute == 0 { return Ok(()) }
Disabled(n) == n = 0

\* an accepted call that stays in the window it was counted in
AcceptedSameWindow(entry, now) == [count |-> entry.count + 1, start |-> entry.start]

\* check: requests.insert(client_id, (current_count + 1, now))
Accepted(entry, now) == [count |-> entry.count + 1, start |-> now]

\* HashMap::insert
Insert(m, k, v) == [x \in DOMAIN m \cup {k} |-> IF x = k THEN v ELSE m[x]]

\* .map(|(_, start)| start.elapsed() >= Duration::from_secs(60)).unwrap_or(true)
should_reset(m, c, now) == c \notin DOMAIN m \/ now - m[c].start >= WindowSecs

Checked(c, ok) == [client |-> c, at |-> clock, ok |-> ok]

\* RateLimiterState::check(client_id), under the lock of client_requests
Check(c) ==
    /\ limiter.some
    /\ Len(checks) < MaxChecks
    /\ IF Disabled(limiter.requests_per_minute)
       THEN /\ checks' = Append(checks, Checked(c, TRUE))
            /\ UNCHANGED client_requests
       ELSE IF should_reset(client_requests, c, clock)
       THEN /\ client_requests' = Insert(client_requests, c, [count |-> 1, start |-> clock])
            /\ checks' = Append(checks, Checked(c, TRUE))
       ELSE IF client_requests[c].count >= limiter.requests_per_minute
       THEN /\ checks' = Append(checks, Checked(c, FALSE))
            /\ UNCHANGED client_requests
       ELSE /\ client_requests' = Insert(client_requests, c, Accepted(client_requests[c], clock))
            /\ checks' = Append(checks, Checked(c, TRUE))
    /\ UNCHANGED <<limiter, clock>>
    /\ UNCHANGED <<apiVars, configVars, discVars, probeVars, filterVars>>

\* time passes
AdvanceClock ==
    /\ clock < MaxClock
    /\ clock' = clock + Tick
    /\ UNCHANGED <<limiter, client_requests, checks>>
    /\ UNCHANGED <<apiVars, configVars, discVars, probeVars, filterVars>>

\* the limiter main.rs manages, for every value of the variable, and limiters
\* built with RateLimiterState::new
InitLimiter ==
    /\ InitApi
    /\ connected = FALSE
    /\ InitNoRun
    /\ InitNoProbe
    /\ InitNoFilter
    /\ limiter \in {rate_limiter_from_config(env) : env \in RateEnvs}
                   \cup {RateLimiterNew(n, "new") : n \in 0..MaxRate}
    /\ client_requests = <<>>
    /\ clock = 0
    /\ checks = <<>>

NextLimiter == AdvanceClock \/ \E c \in Clients : Check(c)

SpecLimiter == InitLimiter /\ [][NextLimiter]_vars

-----------------------------------------------------------------------------
(* get_filtered_servers on every filter and table of the model *)

InitFilter ==
    /\ InitApi
    /\ connected = FALSE
    /\ InitNoRun
    /\ InitNoLimiter
    /\ InitNoProbe
    /\ table \in FilterTables
    /\ filter \in Filters
    /\ listing = NoListing

RunFilter ==
    /\ ~listing.done
    /\ listing' \in get_filtered_servers(table, filter)
    /\ UNCHANGED <<table, filter, apiVars, configVars, limitVars, discVars, probeVars>>

NextFilter == RunFilter

SpecFilter == InitFilter /\ [][NextFilter]_vars

-----------------------------------------------------------------------------
(* The handlers beside the liftoff connect, with a cache and a repository  *)
(* whose calls may fail                                                    *)

\* number of HTTP requests of a behaviour with faults
FaultReqs == 2

\* the domains a request may carry: valid, with a port, with a path, empty
FaultDomains == {DomA, DomPort, DomPath, DomEmpty}

\* the queries a search_servers request may carry
SearchFilters ==
    {DefaultFilter, [DefaultFilter EXCEPT !.limit = Opt(1)],
     [DefaultFilter EXCEPT !.search = Opt(<<"b">>)]}

\* the Redis Connection fairing: Cache::connect fails at Client::open or at
\* ConnectionManager::new and leaves connection None, or stores Some(manager)
CacheConnect ==
    /\ liftoff = "pending"
    /\ liftoff' = "done"
    /\ \E o \in {"ok", "err"} : connected' = (o = "ok")
    /\ UNCHANGED <<servers, cache, epoch, dbFaults, cacheFaults, pc, op, arg, ret, tmp>>
    /\ UNCHANGED <<configVars, limitVars, discVars, probeVars, filterVars>>

InitFaults ==
    /\ servers \in {<<>>, <<Row(1, DomA)>>}
    /\ cache = EmptyCache
    /\ connected = FALSE
    /\ liftoff = "pending"
    /\ epoch = 0
    /\ dbFaults = TRUE
    /\ cacheFaults = TRUE
    /\ pc = [r \in Reqs |-> IF r <= FaultReqs THEN "idle" ELSE "unused"]
    /\ op = [r \in Reqs |-> "none"]
    /\ arg = [r \in Reqs |-> DomEmpty]
    /\ ret = [r \in Reqs |-> NoRet]
    /\ tmp = [r \in Reqs |-> InitTmp]
    /\ InitNoRun
    /\ InitNoLimiter
    /\ InitNoProbe
    /\ InitNoFilter

FaultRequest(r) ==
    \/ \E d \in FaultDomains : AddServerBegin(r, d)
    \/ AddServerProbe(r)
    \/ AddServerInsert(r)
    \/ AddServerReadback(r)
    \/ AddServerInvalidate(r)
    \/ AddServerDelete(r)
    \/ ListServersBegin(r)
    \/ ListServersQuery(r)
    \/ ListServersSet(r)
    \/ \E f \in SearchFilters : SearchServersBegin(r, f)
    \/ SearchServersQuery(r)
    \/ SearchServersSet(r)
    \/ \E d \in FaultDomains : ServerInfoBegin(r, d)
    \/ ServerInfoProbe(r)
    \/ ServerInfoSet(r)

NextFaults == CacheConnect \/ \E r \in Reqs : FaultRequest(r)

SpecFaults == InitFaults /\ [][NextFaults]_vars

-----------------------------------------------------------------------------
(* The operations of Cache (cache.rs), called directly *)

\* number of cache calls of one behaviour
CacheReqs == 2

\* MATCH pattern: * matches any run of characters, ? any one character
RECURSIVE Glob(_, _)
Glob(k, g) ==
    IF g = <<>> THEN k = <<>>
    ELSE IF Head(g) = "*" THEN Glob(k, Tail(g)) \/ (k # <<>> /\ Glob(Tail(k), g))
    ELSE IF k = <<>> THEN FALSE
    ELSE (Head(g) = "?" \/ Head(g) = Head(k)) /\ Glob(Tail(k), Tail(g))

\* the keys and patterns of the calls: the keys the handlers write, and patterns
\* that match some, all and none of them
CacheKeys == {ListKey, SearchKey(DefaultFilter), InfoKey(DomA)}

CachePatterns == {<<"servers", ":", "*">>, <<"server", "?", "info", ":", "*">>, <<"*">>, <<"x">>}

CacheEntry == [value |-> <<>>, ttl |-> CACHE_TTL_SHORT, written |-> 0, rows |-> 0]

\* what the remote cache holds when the process starts
InitialCaches == {EmptyCache, [k \in CacheKeys |-> CacheEntry]}

\* self.connection.write().await is held by an invalidate_pattern call from its
\* first SCAN to its return
Locked == \E q \in Reqs : op[q] = "invalidate_pattern" /\ pc[q] \in {"scan", "del"}

CacheReturn(kind, v) == [kind |-> kind, value |-> v]

\* Cache::get
CacheGetOp(r, k) ==
    /\ Arrives(r) /\ ~Locked
    /\ op' = [op EXCEPT ![r] = "get"]
    /\ arg' = [arg EXCEPT ![r] = k]
    /\ \E o \in CacheOutcomes :
         Finish(r, CacheReturn(CacheGet(k, o),
                               IF CacheGet(k, o) = "Ok" THEN cache[k].value ELSE <<>>))
    /\ UNCHANGED <<servers, cache, connected, liftoff, epoch, dbFaults, cacheFaults, tmp>>
    /\ UNCHANGED <<configVars, limitVars, discVars, probeVars, filterVars>>

\* Cache::set
CacheSetOp(r, k) ==
    /\ Arrives(r) /\ ~Locked
    /\ op' = [op EXCEPT ![r] = "set"]
    /\ arg' = [arg EXCEPT ![r] = k]
    /\ \E o \in CacheOutcomes :
         /\ cache' = IF CacheResult(o) = "Ok" THEN CacheSet(k, <<>>, CACHE_TTL_SHORT) ELSE cache
         /\ Finish(r, CacheReturn(CacheResult(o), <<>>))
    /\ UNCHANGED <<servers, connected, liftoff, epoch, dbFaults, cacheFaults, tmp>>
    /\ UNCHANGED <<configVars, limitVars, discVars, probeVars, filterVars>>

\* Cache::delete
CacheDeleteOp(r, k) ==
    /\ Arrives(r) /\ ~Locked
    /\ op' = [op EXCEPT ![r] = "delete"]
    /\ arg' = [arg EXCEPT ![r] = k]
    /\ \E o \in CacheOutcomes :
         /\ cache' = IF CacheResult(o) = "Ok" THEN CacheDelete(k) ELSE cache
         /\ Finish(r, CacheReturn(CacheResult(o), <<>>))
    /\ UNCHANGED <<servers, connected, liftoff, epoch, dbFaults, cacheFaults, tmp>>
    /\ UNCHANGED <<configVars, limitVars, discVars, probeVars, filterVars>>

\* Cache::exists
CacheExistsOp(r, k) ==
    /\ Arrives(r) /\ ~Locked
    /\ op' = [op EXCEPT ![r] = "exists"]
    /\ arg' = [arg EXCEPT ![r] = k]
    /\ \E o \in CacheOutcomes :
         Finish(r, CacheReturn(CacheResult(o),
                               IF CacheResult(o) = "Ok" /\ k \in DOMAIN cache
                               THEN <<"true">> ELSE <<>>))
    /\ UNCHANGED <<servers, cache, connected, liftoff, epoch, dbFaults, cacheFaults, tmp>>
    /\ UNCHANGED <<configVars, limitVars, discVars, probeVars, filterVars>>

\* Cache::invalidate_pattern: the guard, keys = Vec::new(), cursor = 0
InvalidateBegin(r, g) ==
    /\ Arrives(r) /\ ~Locked
    /\ op' = [op EXCEPT ![r] = "invalidate_pattern"]
    /\ arg' = [arg EXCEPT ![r] = g]
    /\ IF CacheResult("ok") # "Ok"
       THEN Finish(r, CacheReturn(CacheResult("ok"), <<>>)) /\ UNCHANGED tmp
       ELSE /\ Goto(r, "scan")
            /\ tmp' = [tmp EXCEPT ![r].before = cache, ![r].cursor = DOMAIN cache,
                                  ![r].keys = {}, ![r].scans = 0]
    /\ UNCHANGED <<servers, cache, connected, liftoff, epoch, dbFaults, cacheFaults>>
    /\ UNCHANGED <<configVars, limitVars, discVars, probeVars, filterVars>>

\* a scan that ends with its first batch
ScanEndsAtFirstBatch(unvisited) == TRUE

\* if cursor == 0 { break }: the cursor is 0 when the key space has been covered
ScanEnds(unvisited) == unvisited = {}

\* one SCAN cursor MATCH pattern COUNT 100: the server walks on over some of the
\* keys not yet covered (COUNT is a hint) and returns those that match
InvalidateScan(r) ==
    /\ pc[r] = "scan" /\ op[r] = "invalidate_pattern"
    /\ \E o \in CacheOutcomes :
         IF o = "err"
         THEN Finish(r, CacheReturn("Redis", <<>>)) /\ UNCHANGED tmp
         ELSE \E batch \in SUBSET tmp[r].cursor :
                /\ batch # {} \/ tmp[r].cursor = {}
                /\ tmp' = [tmp EXCEPT ![r].keys = @ \cup {k \in batch : Glob(k, arg[r])},
                                      ![r].cursor = @ \ batch,
                                      ![r].scans = @ + 1]
                /\ IF ScanEnds(tmp[r].cursor \ batch) THEN Goto(r, "del") ELSE Goto(r, "scan")
    /\ UNCHANGED <<servers, cache, connected, liftoff, epoch, dbFaults, cacheFaults, op, arg>>
    /\ UNCHANGED <<configVars, limitVars, discVars, probeVars, filterVars>>

\* if !keys.is_empty() { DEL keys }, then Ok(())
InvalidateDel(r) ==
    /\ pc[r] = "del" /\ op[r] = "invalidate_pattern"
    /\ IF tmp[r].keys = {}
       THEN Finish(r, CacheReturn("Ok", <<>>)) /\ UNCHANGED cache
       ELSE \E o \in CacheOutcomes :
              IF o = "err"
              THEN Finish(r, CacheReturn("Redis", <<>>)) /\ UNCHANGED cache
              ELSE /\ cache' = [x \in DOMAIN cache \ tmp[r].keys |-> cache[x]]
                   /\ Finish(r, CacheReturn("Ok", <<>>))
    /\ UNCHANGED <<servers, connected, liftoff, epoch, dbFaults, cacheFaults, op, arg, tmp>>
    /\ UNCHANGED <<configVars, limitVars, discVars, probeVars, filterVars>>

InitCache ==
    /\ servers = <<>>
    /\ cache \in InitialCaches
    /\ connected = FALSE
    /\ liftoff = "pending"
    /\ epoch = 0
    /\ dbFaults = FALSE
    /\ cacheFaults = TRUE
    /\ pc = [r \in Reqs |-> IF r <= CacheReqs THEN "idle" ELSE "unused"]
    /\ op = [r \in Reqs |-> "none"]
    /\ arg = [r \in Reqs |-> DomEmpty]
    /\ ret = [r \in Reqs |-> NoRet]
    /\ tmp = [r \in Reqs |-> InitTmp]
    /\ InitNoRun
    /\ InitNoLimiter
    /\ InitNoProbe
    /\ InitNoFilter

CacheCall(r) ==
    \/ \E k \in CacheKeys : CacheGetOp(r, k)
    \/ \E k \in CacheKeys : CacheSetOp(r, k)
    \/ \E k \in CacheKeys : CacheDeleteOp(r, k)
    \/ \E k \in CacheKeys : CacheExistsOp(r, k)
    \/ \E g \in CachePatterns : InvalidateBegin(r, g)
    \/ InvalidateScan(r)
    \/ InvalidateDel(r)

NextCache == CacheConnect \/ \E r \in Reqs : CacheCall(r)

SpecCache == InitCache /\ [][NextCache]_vars

-----------------------------------------------------------------------------
(* search_servers requests over a fixed repository and a working cache *)

\* number of search_servers requests of one behaviour
SearchReqs == 2

\* the query strings checked: no parameter, limit=0, offset=0, and two whose
\* parameter values contain ':' (search=b&registration_open=true&sort_by=: and
\* search=b:true)
KeyFilters ==
    {DefaultFilter,
     [DefaultFilter EXCEPT !.limit = Opt(0)],
     [DefaultFilter EXCEPT !.offset = Opt(0)],
     [DefaultFilter EXCEPT !.search = Opt(<<"b">>), !.registration_open = Opt(TRUE),
                           !.sort_by = Opt(":")],
     [DefaultFilter EXCEPT !.search = Opt(<<"b", ":", "true">>)]}

InitSearch ==
    /\ servers = <<Row(1, DomA), Row(2, DomB)>>
    /\ cache = EmptyCache
    /\ connected = TRUE
    /\ liftoff = "done"
    /\ epoch = 0
    /\ dbFaults = FALSE
    /\ cacheFaults = FALSE
    /\ pc = [r \in Reqs |-> IF r <= SearchReqs THEN "idle" ELSE "unused"]
    /\ op = [r \in Reqs |-> "none"]
    /\ arg = [r \in Reqs |-> DomEmpty]
    /\ ret = [r \in Reqs |-> NoRet]
    /\ tmp = [r \in Reqs |-> InitTmp]
    /\ InitNoRun
    /\ InitNoLimiter
    /\ InitNoProbe
    /\ InitNoFilter

SearchRequest(r) ==
    \/ \E f \in KeyFilters : SearchServersBegin(r, f)
    \/ SearchServersQuery(r)
    \/ SearchServersSet(r)

NextSearch == \E r \in Reqs : SearchRequest(r)

SpecSearch == InitSearch /\ [][NextSearch]_vars

-----------------------------------------------------------------------------
(* get_filtered_servers statement by statement, beside inserts that commit on *)
(* other connections                                                         *)

\* largest table
MaxRows == 3

SnapshotTables ==
    {<<>>, <<ServerRow(1, <<"a">>, Opt(<<"a">>), NoneText, Opt(TRUE), Opt(5), Opt(<<"1">>))>>}

SnapshotFilters ==
    {DefaultFilter,
     [DefaultFilter EXCEPT !.limit = Opt(1)],
     [DefaultFilter EXCEPT !.offset = Opt(1)],
     [DefaultFilter EXCEPT !.has_rooms = Opt(TRUE)],
     [DefaultFilter EXCEPT !.sort_by = Opt("domain"), !.sort_order = Opt("asc")]}

\* the rows other connections insert: with and without rooms
InsertedRows(i) ==
    {ServerRow(i, <<"b">>, NoneText, NoneText, NoneBool, Opt(1), NoneText),
     ServerRow(i, <<"c">>, NoneText, NoneText, NoneBool, NoneInt, NoneText)}

NotCalled == [phase |-> "idle", servers |-> <<>>, total |-> 0, limit |-> 0, offset |-> 0,
              at_count |-> <<>>, at_page |-> <<>>]

InitSnapshot ==
    /\ InitApi
    /\ connected = FALSE
    /\ InitNoRun
    /\ InitNoLimiter
    /\ InitNoProbe
    /\ table \in SnapshotTables
    /\ filter \in SnapshotFilters
    /\ listing = NotCalled

\* let total = count_query.count().get_result::<i64>(conn)?
CountQuery ==
    /\ listing.phase = "idle"
    /\ listing' = [listing EXCEPT
                     !.phase = "counted",
                     !.total = Cardinality({i \in 1..Len(table) : CountWhere(table[i], filter)}),
                     !.at_count = table]
    /\ UNCHANGED <<table, filter, apiVars, configVars, limitVars, discVars, probeVars>>

\* result_query ... .offset(offset).limit(limit).load(conn)?, on the table as it
\* is when the statement runs, then Ok(PaginatedServers {..}) with the total
\* counted before
PageQuery ==
    /\ listing.phase = "counted"
    /\ \E x \in get_filtered_servers(table, filter) :
         listing' = [listing EXCEPT !.phase = "done", !.servers = x.servers,
                                    !.limit = x.limit, !.offset = x.offset,
                                    !.at_page = table]
    /\ UNCHANGED <<table, filter, apiVars, configVars, limitVars, discVars, probeVars>>

\* insert_server commits on another connection of the pool
InsertCommit ==
    /\ Len(table) < MaxRows
    /\ \E row \in InsertedRows(Len(table) + 1) : table' = Append(table, row)
    /\ UNCHANGED <<filter, listing, apiVars, configVars, limitVars, discVars, probeVars>>

NextSnapshot == CountQuery \/ PageQuery \/ InsertCommit

SpecSnapshot == InitSnapshot /\ [][NextSnapshot]_vars

-----------------------------------------------------------------------------
(* Properties *)

Adds == {r \in Reqs : op[r] = "add_server"}

Done(r) == pc[r] = "done"

\* C1: in one start_discovery run no domain is probed for peers more than once,
\* seeds included: a domain occurs in the frontier of at most one round, and at
\* most once in it.
C1_EachDomainProbedOnce ==
    \A i \in DOMAIN rounds, j \in DOMAIN rounds :
      \A x \in DOMAIN rounds[i], y \in DOMAIN rounds[j] :
        rounds[i][x] = rounds[j][y] => (i = j /\ x = y)

ReturnsOk(r) == op[r] = "add_server" /\ pc[r] = "delete" /\ pc'[r] = "done"

C4_NoPageOlderThanInsert ==
    \A r \in Reqs : (op[r] = "list_servers" /\ Done(r)) => ~tmp[r].stale

\* C5: an add_server(d) that arrives after an add_server(d) returned success
\* returns server_exists, issues no probe and inserts nothing.
C5_SecondAddIsServerExists ==
    \A r \in Adds :
      (Done(r) /\ \E q \in tmp[r].prior : arg[q] = arg[r]) =>
        /\ ret[r] = ErrorResponse("server_exists")
        /\ ~tmp[r].probed
        /\ ~tmp[r].inserted

C5_Witness ==
    \E r \in Adds : Done(r) /\ \E q \in tmp[r].prior : arg[q] = arg[r]

\* C6: when two add_server(d) calls both pass the existence check before either
\* inserts (both go on to a successful probe), one row of d is stored, one call
\* returns the record and the other returns server_exists.
C6_DuplicateInsertIsServerExists ==
    \A r \in Adds, q \in Adds :
      (/\ r # q /\ arg[r] = arg[q] /\ Done(r) /\ Done(q)
       /\ tmp[r].probed /\ tmp[q].probed
       /\ ret[r] # ErrorResponse("discovery_failed")
       /\ ret[q] # ErrorResponse("discovery_failed")
       /\ tmp[r].inserted) =>
        /\ Cardinality(RowsByDomain(servers, arg[r])) = 1
        /\ ret[r].kind = "ok"
        /\ ret[q] = ErrorResponse("server_exists")

\* C7: no two rows have domains that are equal ignoring letter case.
C7_DomainsUniqueIgnoringCase ==
    \A i \in 1..Len(servers), j \in 1..Len(servers) :
      i # j => Lower(servers[i].domain) # Lower(servers[j].domain)

OptionalEndpoints == {"capabilities", "public_rooms", "wk_client", "wk_server", "federation"}

\* the fields each sub-probe fills
FieldsOf(e) ==
    CASE e = "capabilities" -> {"registration_open", "room_versions"}
      [] e = "public_rooms" -> {"public_rooms_count"}
      [] e = "wk_client" -> {"name", "description", "logo_url", "theme"}
      [] e = "wk_server" -> {"delegated_server"}
      [] e = "federation" -> {"federation_version"}
      [] OTHER -> {"version"}

OnlyFails(e) == world[e] # "ok" /\ \A x \in Endpoints \ {e} : world[x] = "ok"

\* C8: when one optional sub-probe fails (transport error, non-success status or
\* undecodable body) and the others succeed, discover_server_info returns a
\* DiscoveredInfo in which that sub-probe's fields are unset and the others set.
C8_OptionalFailureOnlyUnsetsItsFields ==
    \A e \in OptionalEndpoints :
      (probeResult.done /\ OnlyFails(e)) =>
        /\ probeResult.ok
        /\ \A f \in DOMAIN NoInfo :
             probeResult.info[f] = (IF f \in FieldsOf(e) THEN "none" ELSE "some")

\* C9: discover_server_info returns an error exactly when the request to the
\* client-versions endpoint fails.
C9_HardErrorIffLivenessFails ==
    probeResult.done => (~probeResult.ok <=> world["versions"] # "ok")

\* C10: at most max_concurrent peer probes hold a permit with their request
\* outstanding, and at most max_concurrent discover_server_info probes of the run
\* are in flight.
C10_ProbesInFlightBounded ==
    /\ Cardinality({i \in DOMAIN probe : probe[i] = "inflight"}) <= max_concurrent
    /\ (IF dpc = "index_probe" THEN 1 ELSE 0) <= max_concurrent

\* the limit binds: max_concurrent probes in flight and another one queued
C10_Witness ==
    /\ dpc = "collect"
    /\ Cardinality({i \in DOMAIN probe : probe[i] = "inflight"}) = max_concurrent
    /\ max_concurrent > 0
    /\ Queued # {}

\* C11: the permit of a peer probe is released on every exit path: when all
\* probes of a round have finished, all max_concurrent permits are free again,
\* and in every round every host of the frontier gets its probe started and
\* finished.
C11_PermitsReleasedAndProbesStart ==
    /\ []((dpc = "collect" /\ Collected) => permits = max_concurrent)
    /\ (dpc = "collect") ~> (dpc = "collect" /\ Collected)

RoundProcessed == dpc = "process" /\ ri > Len(results)

\* C13: start_discovery has no error return, and per-host failures are local:
\* when the results of a round have been processed, every peer of every Ok
\* result is in discovered, whatever the other probes of the round returned
\* (error, timeout) and whether or not an insert failed, and every domain that
\* entered discovered in this round (and was handed to add_server_to_index in
\* the same step) is in the next frontier before its truncation.
C13_FailuresStayLocal ==
    RoundProcessed =>
      /\ \A j \in DOMAIN results :
           results[j].result.ok => results[j].result.peers \subseteq discovered
      /\ \A d \in discovered : <<d, depth>> \in seenAt => d \in Elems(servers_to_check)

\* a round where the first result is an error or a timeout, a later one brought
\* peers, and the latest insert failed on a row stored meanwhile
C13_Witness ==
    /\ RoundProcessed
    /\ \E i \in DOMAIN results, j \in DOMAIN results :
         /\ i < j
         /\ ~results[i].result.ok
         /\ results[j].result.ok /\ results[j].result.peers # {}
    /\ cur.info # NoInfo /\ cur.rowid = 0

\* C14: the frontier of every round, the seed round included, holds at most
\* batch_size domains when the round starts.
C14_FrontierWithinBatchSize ==
    \A k \in DOMAIN rounds : Len(rounds[k]) <= batch_size

\* C15: from the first round on discovered holds the seed servers; it never loses
\* a domain it was given; and when a round's results have been processed it
\* holds every peer of every Ok result.
C15_SeenGrowsAndHoldsSeeds ==
    /\ rounds # <<>> => Elems(seed_servers) \subseteq discovered
    /\ {e[1] : e \in seenAt} \subseteq discovered
    /\ RoundProcessed =>
         \A j \in DOMAIN results :
           results[j].result.ok => results[j].result.peers \subseteq discovered

\* C16: a step of the discovery run leaves every stored row as it is (no update,
\* no delete, no rollback of an earlier insert) and adds at most one row, for a
\* domain that no stored row has.
C16_RunOnlyInsertsAbsent ==
    [][/\ Len(servers') \in {Len(servers), Len(servers) + 1}
       /\ \A i \in 1..Len(servers) : servers'[i] = servers[i]
       /\ Len(servers') = Len(servers) + 1 =>
            \A i \in 1..Len(servers) : servers[i].domain # servers'[Len(servers')].domain]_vars

\* the run has ended after inserting a row beside one stored before it started,
\* and the peer probes of its last round failed
C16_Witness ==
    /\ dpc = "done"
    /\ atStart # {}
    /\ runRows # {}
    /\ \A i \in 1..Len(servers) : i \notin runRows => servers[i].domain \in atStart
    /\ Len(rounds) > 1
    /\ \A j \in DOMAIN results : ~results[j].result.ok

Matching == {i \in 1..Len(table) : ResultWhere(table[i], filter)}

\* C17: the total that get_filtered_servers returns is the number of rows that
\* pass the filter (the rows its page query selects from), it is the same for
\* every limit and offset put in the filter, and paging with limit 1 yields a
\* row at exactly the offsets below total.
C17_TotalCountsMatches ==
    listing.done =>
      /\ listing.total = Cardinality(Matching)
      /\ \A l \in Limits, o \in Offsets :
           \A x \in get_filtered_servers(table, [filter EXCEPT !.limit = l, !.offset = o]) :
             x.total = listing.total
      /\ \A o \in 0..Len(table) :
           \A x \in get_filtered_servers(table, [filter EXCEPT !.limit = Opt(1),
                                                               !.offset = Opt(o)]) :
             (x.servers # <<>>) <=> (o < listing.total)

\* a filter that some rows fail, and a page shorter than the total
C17_Witness ==
    /\ listing.done
    /\ filter.has_rooms.some /\ filter.search.some
    /\ listing.total = 2 /\ Len(table) = 3
    /\ filter.offset = Opt(1)
    /\ Len(listing.servers) = 1

\* C18: the result reports limit = clamp(limit, 1, 100), 50 when absent, and
\* offset = max(offset, 0), 0 when absent, and holds at most limit rows.
C18_LimitAndOffsetClamped ==
    listing.done =>
      /\ listing.limit = (IF ~filter.limit.some THEN 50
                          ELSE IF filter.limit.v < 1 THEN 1
                          ELSE IF filter.limit.v > 100 THEN 100 ELSE filter.limit.v)
      /\ listing.offset = (IF ~filter.offset.some \/ filter.offset.v < 0 THEN 0
                           ELSE filter.offset.v)
      /\ Len(listing.servers) <= listing.limit

\* limit 0 became 1 and cut the page, a negative offset became 0
C18_Witness ==
    /\ listing.done
    /\ filter.limit = Opt(0) /\ filter.offset = Opt(-1)
    /\ listing.total = 3
    /\ Len(listing.servers) = 1

PageIds(x) == [k \in 1..Len(x.servers) |-> x.servers[k].id]

\* C19: for a table and a filter the page is uniquely determined: every result
\* the call can return is the same, and rows of the page with equal sort key are
\* in insertion order (id).
C19_PageDeterminedTiesById ==
    listing.done =>
      /\ \A x \in get_filtered_servers(table, filter) : x = listing
      /\ \A i, j \in 1..Len(listing.servers) :
           LET col == SortColumn(UnwrapOr(filter.sort_by, "created_at"))
           IN  (i < j /\ ~ColumnLess(listing.servers[i], listing.servers[j], col)
                      /\ ~ColumnLess(listing.servers[j], listing.servers[i], col)) =>
                 listing.servers[i].id < listing.servers[j].id

\* C20: a sort_by outside {created_at, name, domain, public_rooms_count}, or
\* absent, gives the results of sort_by = created_at, a sort_order outside
\* {asc, desc}, or absent, the results of sort_order = desc; and with both
\* defaults the page is in descending created_at.
C20_SortFallbacks ==
    listing.done =>
      LET by == IF filter.sort_by.some
                   /\ filter.sort_by.v \in {"created_at", "name", "domain", "public_rooms_count"}
                THEN filter.sort_by ELSE Opt("created_at")
          order == IF filter.sort_order.some /\ filter.sort_order.v \in {"asc", "desc"}
                   THEN filter.sort_order ELSE Opt("desc")
      IN  /\ get_filtered_servers(table, filter)
               = get_filtered_servers(table, [filter EXCEPT !.sort_by = by, !.sort_order = order])
          /\ (by = Opt("created_at") /\ order = Opt("desc")) =>
               \A i, j \in 1..Len(listing.servers) :
                 i < j => listing.servers[i].created_at > listing.servers[j].created_at

\* an unknown sort_by and an unknown sort_order on a page of several rows whose
\* names are not in the order of their insertion
C20_Witness ==
    /\ listing.done
    /\ filter.sort_by = Opt("id") /\ filter.sort_order = Opt("ASC")
    /\ Len(listing.servers) = 3
    /\ listing.servers[1].name = Opt(<<"b">>)

HasRooms(row) == row.public_rooms_count.some /\ row.public_rooms_count.v > 0

\* the filter with has_rooms set to h, on a page wide enough for every row
WithHasRooms(h) == [filter EXCEPT !.has_rooms = h, !.limit = NoneInt, !.offset = NoneInt]

IdsOf(x) == {x.servers[k].id : k \in 1..Len(x.servers)}

\* C21: with has_rooms = true every returned record has public_rooms_count > 0,
\* with has_rooms = false every returned record has it unknown or <= 0, and total
\* counts all such records that pass the other filters; the records returned for
\* true and for false are disjoint and together are the records returned without
\* has_rooms; and records a (0 rooms), b (50), c (5) with has_rooms = true,
\* sort_by = public_rooms_count, asc give [c, b], total 2.
C21_HasRoomsPartitions ==
    listing.done =>
      /\ filter.has_rooms.some =>
           /\ \A k \in 1..Len(listing.servers) :
                HasRooms(listing.servers[k]) = filter.has_rooms.v
           /\ listing.total =
                Cardinality({i \in 1..Len(table) :
                               /\ HasRooms(table[i]) = filter.has_rooms.v
                               /\ SearchWhere(table[i], filter)
                               /\ RegistrationWhere(table[i], filter)
                               /\ RoomVersionWhere(table[i], filter)})
      /\ \A x \in get_filtered_servers(table, WithHasRooms(Opt(TRUE))),
            y \in get_filtered_servers(table, WithHasRooms(Opt(FALSE))),
            z \in get_filtered_servers(table, WithHasRooms(NoneBool)) :
           /\ IdsOf(x) \cap IdsOf(y) = {}
           /\ IdsOf(x) \cup IdsOf(y) = IdsOf(z)
           /\ x.total + y.total = z.total
      /\ (/\ filter = [DefaultFilter EXCEPT !.has_rooms = Opt(TRUE),
                                            !.sort_by = Opt("public_rooms_count"),
                                            !.sort_order = Opt("asc")]
          /\ Len(table) = 3
          /\ \A i \in 1..3 : table[i].public_rooms_count = Opt(<<0, 50, 5>>[i])) =>
           /\ [k \in 1..Len(listing.servers) |-> listing.servers[k].domain]
                = <<(<<"c">>), (<<"b">>)>>
           /\ listing.total = 2

\* has_rooms = false returned a record with 0 rooms and a record whose count is
\* unknown, and left out the record with 5 rooms
C21_Witness ==
    /\ listing.done
    /\ filter.has_rooms = Opt(FALSE)
    /\ Len(table) = 3
    /\ listing.total = 2
    /\ \E k \in 1..Len(listing.servers) : ~listing.servers[k].public_rooms_count.some
    /\ \E k \in 1..Len(listing.servers) : listing.servers[k].public_rooms_count = Opt(0)

CacheOps == {"get", "set", "delete", "exists", "invalidate_pattern"}

\* C22: a cache call that starts while connection is None (before connect, or
\* after a connect that failed) returns NotInitialized at once, whichever of get,
\* set, delete, exists and invalidate_pattern it is, and leaves connection None
\* and the remote keys as they were; and once connection is Some it stays Some.
C22_UninitializedUntilConnected ==
    [][/\ connected => connected'
       /\ \A r \in Reqs :
            (pc[r] = "idle" /\ pc'[r] # "idle" /\ ~connected) =>
              /\ op'[r] \in CacheOps
              /\ pc'[r] = "done"
              /\ ret'[r].kind = "NotInitialized"
              /\ ~connected'
              /\ cache' = cache]_vars

\* connect has failed, and an invalidate_pattern and an exists call made after it
\* returned NotInitialized, with keys in the remote cache
C22_Witness ==
    /\ liftoff = "done" /\ ~connected
    /\ cache # EmptyCache
    /\ op[1] = "invalidate_pattern" /\ op[2] = "exists"
    /\ \A r \in 1..CacheReqs : pc[r] = "done" /\ ret[r].kind = "NotInitialized"

\* C30: in the step in which invalidate_pattern(g) returns Ok on a connected
\* cache, no key that matched g when the call started is in the cache, every key
\* that did not match g is there with the entry it had, and no key was added.
C30_InvalidateRemovesExactlyMatches ==
    [][\A r \in Reqs :
         (op[r] = "invalidate_pattern" /\ pc[r] = "del" /\ pc'[r] = "done"
          /\ ret'[r].kind = "Ok") =>
           /\ \A k \in DOMAIN tmp[r].before :
                IF Glob(k, arg[r])
                THEN k \notin DOMAIN cache'
                ELSE k \in DOMAIN cache' /\ cache'[k] = tmp[r].before[k]
           /\ DOMAIN cache' \subseteq DOMAIN tmp[r].before]_vars

\* invalidate_pattern has returned Ok after more than one SCAN batch, on a cache
\* that held keys matching the pattern and a key not matching it
C30_Witness ==
    /\ op[1] = "invalidate_pattern" /\ pc[1] = "done" /\ ret[1].kind = "Ok"
    /\ pc[2] = "idle"
    /\ tmp[1].scans > 1
    /\ Cardinality({k \in DOMAIN tmp[1].before : Glob(k, arg[1])}) = 2
    /\ DOMAIN cache = {k \in DOMAIN tmp[1].before : ~Glob(k, arg[1])}
    /\ cache # EmptyCache

CacheCalls == {"cache.get", "cache.set", "cache.delete", "cache.invalidate_pattern"}

\* the calls a request made to the repository and to the probe, in order
NonCache(r) == SelectSeq(tmp[r].log, LAMBDA e : e.call \notin CacheCalls)

Hit(r) == \E i \in DOMAIN tmp[r].log : tmp[r].log[i] = Call("cache.get", "Ok")

Handlers == {"add_server", "list_servers", "search_servers", "server_info"}

Finished == {r \in Reqs : pc[r] = "done" /\ op[r] \in Handlers}

HandlerErrors ==
    {"invalid_server", "invalid_domain", "pool_error", "server_exists", "discovery_failed",
     "database_error"}

\* C23: what a handler returns and what the repository holds do not depend on
\* what its cache calls returned (NotFound on a connected cache, NotInitialized,
\* a Redis error): a request that got no cache hit goes on to the repository or
\* the probe; an error response is one of the handler's own and follows its
\* validation or its last repository or probe call; two requests of the same
\* handler and arguments that met the same repository and probe results return
\* the same response; and every row is the initial one or the row of a request
\* whose INSERT succeeded.
C23_ResponsesIndependentOfCache ==
    /\ \A r \in Finished :
         /\ (~Hit(r) /\ ~(op[r] \in {"add_server", "server_info"} /\ IsInvalidDomain(arg[r]))) =>
              NonCache(r) # <<>>
         /\ ret[r].kind = "error" =>
              /\ ret[r].error \in HandlerErrors
              /\ NonCache(r) # <<>> =>
                   NonCache(r)[Len(NonCache(r))].out \in {"err", "some"}
         /\ \A q \in Finished :
              (/\ op[q] = op[r] /\ arg[q] = arg[r] /\ tmp[q].filter = tmp[r].filter
               /\ ~Hit(q) /\ ~Hit(r)
               /\ NonCache(q) = NonCache(r)
               /\ tmp[q].page = tmp[r].page /\ tmp[q].info = tmp[r].info
               /\ tmp[q].row = tmp[r].row) =>
                ret[q] = ret[r]
    /\ \A i \in 1..Len(servers) :
         \/ i = 1 /\ servers[i] = Row(1, DomA)
         \/ \E r \in Reqs : /\ op[r] = "add_server" /\ tmp[r].rowid = i
                            /\ servers[i].domain = arg[r]
                            /\ \E j \in DOMAIN tmp[r].log : tmp[r].log[j] = Call("insert", "ok")

\* two list_servers requests have returned the same page of a non-empty
\* repository, one through an unconnected cache and one through a connected
\* cache whose get and set failed
C23_Witness ==
    /\ Finished = {1, 2}
    /\ op[1] = "list_servers" /\ op[2] = "list_servers"
    /\ tmp[1].log[1] = Call("cache.get", "NotInitialized")
    /\ tmp[2].log[1] = Call("cache.get", "Redis")
    /\ tmp[2].log[Len(tmp[2].log)] = Call("cache.set", "Redis")
    /\ ret[1].kind = "page" /\ ret[1].page # <<>>
    /\ ret[2] = ret[1]

Returns(r) == pc[r] # "done" /\ pc'[r] = "done"

LastCall(l) == l[Len(l)]

\* C24: when list_servers or search_servers returns, either its cache get was a
\* hit, and then it made no repository call, changed nothing and returns the
\* entry of its key; or it queried the repository, and then it returns the page
\* of a successful query and, unless the set failed, leaves that page under its
\* key (servers:list with TTL 300, the search key with TTL 60) and no other key
\* changed, while after a pool or query error it returns pool_error or
\* database_error and writes nothing.
C24_CacheThroughOnSuccessOnly ==
    [][\A r \in Reqs :
         (Returns(r) /\ op'[r] \in {"list_servers", "search_servers"}) =>
           LET key == IF op'[r] = "list_servers" THEN ListKey ELSE SearchKey(tmp'[r].filter)
               ttl == IF op'[r] = "list_servers" THEN 300 ELSE 60
               log == tmp'[r].log
               calls == SelectSeq(log, LAMBDA e : e.call \notin CacheCalls)
           IN  IF log[1] = Call("cache.get", "Ok")
               THEN /\ calls = <<>> /\ Len(log) = 1
                    /\ ret'[r] = [kind |-> "page", page |-> cache[key].value, cached |-> TRUE]
                    /\ cache' = cache /\ servers' = servers
               ELSE /\ calls # <<>>
                    /\ servers' = servers
                    /\ IF LastCall(calls) = Call("get_filtered_servers", "ok")
                       THEN /\ ret'[r] = [kind |-> "page", page |-> tmp[r].page, cached |-> FALSE]
                            /\ IF LastCall(log) = Call("cache.set", "Ok")
                               THEN /\ DOMAIN cache' = DOMAIN cache \cup {key}
                                    /\ cache'[key].value = tmp[r].page
                                    /\ cache'[key].ttl = ttl
                                    /\ \A k \in DOMAIN cache \ {key} : cache'[k] = cache[k]
                               ELSE cache' = cache
                       ELSE /\ ret'[r].kind = "error"
                            /\ ret'[r].error \in {"pool_error", "database_error"}
                            /\ LastCall(calls).out = "err"
                            /\ \A i \in DOMAIN log : log[i].call # "cache.set"
                            /\ cache' = cache]_vars

\* a search_servers request missed, queried and wrote its page with TTL 60, a
\* second one got that page from the cache; the page is not empty
C24_Witness ==
    /\ Finished = {1, 2}
    /\ op[1] = "search_servers" /\ op[2] = "search_servers"
    /\ ~Hit(1) /\ Hit(2)
    /\ ret[1].kind = "page" /\ ret[1].page.total > 0
    /\ ret[2].page = ret[1].page /\ ret[2].cached
    /\ cache[SearchKey(tmp[1].filter)].ttl = 60

\* C25: when server_info returns for a valid domain, either its cache get under
\* server:info:{domain} was a hit, and then it made no probe request, changed
\* nothing and returns the cached view; or it probed, and then status is online
\* exactly when the request of check_server_status was answered with a success
\* status, error is set exactly when status is offline, and, unless the set
\* failed, that view is left under the key with TTL 60, online or offline.
C25_ServerInfoCachedOrProbed ==
    [][\A r \in Reqs :
         (Returns(r) /\ op'[r] = "server_info" /\ ~IsInvalidDomain(arg'[r])) =>
           LET key == InfoKey(arg'[r])
               log == tmp'[r].log
           IN  IF log[1] = Call("cache.get", "Ok")
               THEN /\ Len(log) = 1 /\ ~tmp'[r].probed
                    /\ ret'[r] = [kind |-> "info", info |-> cache[key].value, cached |-> TRUE]
                    /\ cache' = cache
               ELSE /\ Len(log) = 4 /\ tmp'[r].probed
                    /\ log[3].call = "check_server_status"
                    /\ ret'[r].kind = "info" /\ ~ret'[r].cached
                    /\ ret'[r].info.server = arg'[r]
                    /\ ret'[r].info.status = (IF log[3].out \in {"ok", "badjson"}
                                              THEN "online" ELSE "offline")
                    /\ (ret'[r].info.error # "none") <=> (ret'[r].info.status = "offline")
                    /\ IF log[4] = Call("cache.set", "Ok")
                       THEN /\ DOMAIN cache' = DOMAIN cache \cup {key}
                            /\ cache'[key].value = ret'[r].info
                            /\ cache'[key].ttl = 60
                            /\ \A k \in DOMAIN cache \ {key} : cache'[k] = cache[k]
                       ELSE cache' = cache]_vars

\* a server_info request found the server offline and cached that view with TTL
\* 60; a second request for the domain got it from the cache without probing
C25_Witness ==
    /\ Finished = {1, 2}
    /\ op[1] = "server_info" /\ op[2] = "server_info"
    /\ arg[1] = DomA /\ arg[2] = DomA
    /\ ~Hit(1) /\ tmp[1].probed
    /\ Hit(2) /\ ~tmp[2].probed
    /\ ret[1].info.status = "offline" /\ ret[1].info.error = "server_error"
    /\ ret[2].info = ret[1].info
    /\ cache[InfoKey(DomA)].ttl = 60

\* C26: a server_info or add_server request whose domain is empty or holds '/'
\* or ':' returns in its first step, invalid_server from server_info and
\* invalid_domain from add_server, having made no cache, probe or repository call
\* and with the cache and the repository unchanged, each time it is made.
C26_InvalidDomainRejectedFirst ==
    [][\A r \in Reqs :
         (/\ pc[r] = "idle" /\ pc'[r] # "idle"
          /\ op'[r] \in {"server_info", "add_server"}
          /\ \/ arg'[r] = <<>>
             \/ \E i \in DOMAIN arg'[r] : arg'[r][i] \in {"/", ":"}) =>
           /\ pc'[r] = "done"
           /\ ret'[r] = [kind |-> "error",
                         error |-> IF op'[r] = "server_info" THEN "invalid_server"
                                   ELSE "invalid_domain"]
           /\ tmp'[r].log = <<>> /\ ~tmp'[r].probed /\ ~tmp'[r].inserted
           /\ cache' = cache /\ servers' = servers]_vars

\* add_server with a domain that carries a port was rejected twice, with a row
\* in the repository
C26_Witness ==
    /\ Finished = {1, 2}
    /\ op[1] = "add_server" /\ op[2] = "add_server"
    /\ arg[1] = DomPort /\ arg[2] = DomPort
    /\ ret[1] = ErrorResponse("invalid_domain") /\ ret[2] = ret[1]
    /\ servers # <<>>

RepositoryCalls == {"pool.get", "get_server_by_domain", "insert", "readback"}

\* C27: a repository call of add_server that returns an error is the last call
\* the request makes: the request has returned, with pool_error when the call
\* was the connection checkout and with database_error otherwise (the existence
\* check included), and it neither probes nor inserts afterwards.
C27_RepositoryErrorStopsAdd ==
    \A r \in Reqs :
      op[r] = "add_server" =>
        \A i \in DOMAIN tmp[r].log :
          (tmp[r].log[i].call \in RepositoryCalls /\ tmp[r].log[i].out = "err") =>
            /\ i = Len(tmp[r].log)
            /\ pc[r] = "done"
            /\ ret[r] = ErrorResponse(IF tmp[r].log[i].call = "pool.get" THEN "pool_error"
                                      ELSE "database_error")

-----------------------------------------------------------------------------
(* C28, C29: the fields taken from the capabilities and publicRooms bodies *)

\* the estimate clamped to [0, 2^31 - 1]
Clamped(x) ==
    IF x.hi < 0 THEN 0
    ELSE IF x.hi > 0 \/ x.b = 1 THEN I32Max
    ELSE x.l

\* C28: the public_rooms_count the probe produces is within [0, 2^31 - 1]; an
\* estimate that is negative or above 2^31 - 1 is clamped to that range, neither
\* wrapped modulo 2^32 nor passed through negative.
C28_RoomCountClamped ==
    (probeResult.done /\ probeResult.public_rooms_count.some) =>
        /\ probeResult.public_rooms_count.v >= 0
        /\ probeResult.public_rooms_count.v <= I32Max
        /\ LET e == world.public_rooms.body.total_room_count_estimate
           IN  e.some => probeResult.public_rooms_count.v = Clamped(e.v)

\* the capabilities answer of the example: enabled = true, available a mapping
\* with the keys "6" and "9"
MappingAnswer ==
    Reply("ok", CapabilitiesBody(TRUE, TRUE, Opt(TRUE), TRUE, Json("map", <<"6", "9">>)))

\* C29: with m.change_password.enabled = true, m.room_versions.available a
\* mapping with the keys "6" and "9", and total_room_count_estimate = 42,
\* discover_server_info yields registration_open = true, room_versions = "6,9"
\* in some order, and public_rooms_count = 42.
C29_MappingOfRoomVersionsJoined ==
    (/\ probeResult.done
     /\ world.capabilities = MappingAnswer
     /\ world.public_rooms = Reply("ok", [total_room_count_estimate |-> Opt(I64(0, 0, 42))]))
    => /\ probeResult.registration_open = Opt(TRUE)
       /\ probeResult.room_versions \in {Opt(<<"6", ",", "9">>), Opt(<<"9", ",", "6">>)}
       /\ probeResult.public_rooms_count = Opt(42)

-----------------------------------------------------------------------------
(* C31: extract_domain_from_mxid *)

\* C31: extract_domain_from_mxid returns the host part of an identifier of the
\* form @local:host (everything after the ':' that ends the local part), "a.aa"
\* for "@a:a.aa", and none for every input without the leading '@' or without ':'.
C31_MxidHostPart ==
    probeResult.done =>
        /\ (world = MxidExample => probeResult.domain = Opt(<<"a", ".", "a", "a">>))
        /\ \A k \in 1..Len(world) :
             (/\ world[1] = "@"
              /\ world[k] = ":"
              /\ \A j \in 1..(k - 1) : world[j] # ":")
             => probeResult.domain = Opt(SubSeq(world, k + 1, Len(world)))
        /\ (Len(world) = 0 \/ world[1] # "@" \/ \A k \in 1..Len(world) : world[k] # ":")
             => ~probeResult.domain.some

\* an mxid with a local part and a server name holding a second ':' was split
C31_Witness ==
    /\ probeResult.done
    /\ world = <<"@", "a", ":", "a", ".", "a", "a", ":", "8">>
    /\ probeResult.domain = Opt(<<"a", ".", "a", "a", ":", "8">>)

-----------------------------------------------------------------------------
(* C38: the domains a run accepts from public-room metadata *)

WellFormed(d) == Len(d) > 0 /\ ~Contains(d, "/") /\ ~Contains(d, ":")

\* C38: every domain a discovery run puts into seen or into a later frontier (and
\* so probes over HTTP) is non-empty and contains neither '/' nor ':'.
C38_AcceptedPeersValidated ==
    /\ \A d \in discovered : WellFormed(d)
    /\ \A k \in 2..Len(rounds) : \A d \in Elems(rounds[k]) : WellFormed(d)

-----------------------------------------------------------------------------
(* C37: termination of start_discovery *)

\* C37: start_discovery terminates for every configuration when every HTTP
\* request and repository call returns or times out: the run returns, after at
\* most max_depth rounds, also for max_concurrent = 0, batch_size = 0 and a seed
\* list without a usable domain.
C37_RunTerminates ==
    /\ <>(dpc = "done")
    /\ [](Len(rounds) <= max_depth)

\* the same for the configurations with max_concurrent >= 1
C37_RunTerminatesWithPermits ==
    /\ (max_concurrent >= 1) => <>(dpc = "done")
    /\ [](Len(rounds) <= max_depth)

-----------------------------------------------------------------------------
(* C32, C33, C34: the rate limiter *)

\* the calls of client c within the 60 seconds from w on
CallsIn(c, w) ==
    {i \in DOMAIN checks : checks[i].client = c /\ w <= checks[i].at /\ checks[i].at < w + 60}

OksIn(c, w) == {i \in CallsIn(c, w) : checks[i].ok}

\* the instants a window can start at with a call in it
Instants == {checks[i].at : i \in DOMAIN checks}

\* C32: with requests_per_minute = 0 rate limiting is disabled:
\* rate_limiter_from_config yields no limiter, and check returns Ok for every
\* client and every sequence of calls without recording any state.
C32_ZeroDisables ==
    /\ limiter.from = "0" => ~limiter.some
    /\ (limiter.some /\ limiter.requests_per_minute = 0) =>
          /\ \A i \in DOMAIN checks : checks[i].ok
          /\ client_requests = <<>>

\* a limiter built with 0 has answered both clients at different times
C32_Witness ==
    /\ limiter.some /\ limiter.requests_per_minute = 0
    /\ Len(checks) = MaxChecks
    /\ {checks[i].client : i \in DOMAIN checks} = Clients
    /\ checks[1].at < checks[MaxChecks].at
    /\ Cardinality(CallsIn("c1", checks[1].at)) >= 3

\* C33: with requests_per_minute = N > 0, no client gets more than N Ok results
\* within any 60-second window, and a check for one client never changes the
\* counter or the window start of another client.
C33_AtMostNPerWindow ==
    /\ [](limiter.requests_per_minute > 0 =>
            \A c \in Clients : \A w \in Instants :
                Cardinality(OksIn(c, w)) <= limiter.requests_per_minute)
    /\ [][\A d \in Clients :
            (Len(checks') > Len(checks) /\ checks'[Len(checks')].client # d) =>
                /\ d \in DOMAIN client_requests' <=> d \in DOMAIN client_requests
                /\ d \in DOMAIN client_requests => client_requests'[d] = client_requests[d]]_vars

\* a client at its limit of 2 in one window was rejected there and accepted again
\* after it, while the other client has an entry of its own
C33_Witness ==
    /\ limiter.requests_per_minute = 2
    /\ DOMAIN client_requests = Clients
    /\ \E i, j \in DOMAIN checks :
         /\ i < j
         /\ checks[i].client = "c1" /\ ~checks[i].ok
         /\ checks[j].client = "c1" /\ checks[j].ok
         /\ Cardinality(OksIn("c1", checks[i].at - Tick)) = 2

\* C34: with requests_per_minute = N > 0, a client that never issues more than N
\* check calls within any 60-second window is never rejected.
C34_CompliantClientNeverRejected ==
    limiter.requests_per_minute > 0 =>
        \A c \in Clients :
            (\A w \in Instants : Cardinality(CallsIn(c, w)) <= limiter.requests_per_minute)
            => \A i \in DOMAIN checks : checks[i].client = c => checks[i].ok

-----------------------------------------------------------------------------
(* C35: the record insert_server returns *)

\* C35: insert_server returns the record it has just inserted, also when inserts
\* for other domains interleave: the ServerResponse of a successful
\* add_server(d) has domain = d (and the id of the row the call inserted).
C35_AddReturnsOwnRecord ==
    \A r \in Adds :
        (Done(r) /\ ret[r].kind = "ok") =>
            /\ ret[r].domain = arg[r]
            /\ ret[r].id = tmp[r].rowid

-----------------------------------------------------------------------------
(* C36: the search cache key *)

Searches == {r \in Reqs : op[r] = "search_servers"}

\* the limit and offset get_filtered_servers uses, the other fields as given
EffectiveFilter(f) ==
    [f EXCEPT !.limit = Opt(Clamp(UnwrapOr(f.limit, 50), 1, 100)),
              !.offset = Opt(Max(UnwrapOr(f.offset, 0), 0))]

\* C36: the search cache key identifies the query: two search_servers requests
\* that map to the same key have the same effective filter, so a cached page is
\* only returned for a request whose repository result would be that page.
C36_SearchKeyIdentifiesQuery ==
    /\ \A r \in Searches, q \in Searches :
         SearchKey(tmp[r].filter) = SearchKey(tmp[q].filter)
         => EffectiveFilter(tmp[r].filter) = EffectiveFilter(tmp[q].filter)
    /\ \A r \in Searches :
         (Done(r) /\ ret[r].kind = "page" /\ ret[r].cached)
         => ret[r].page \in SearchPages(servers, tmp[r].filter)

-----------------------------------------------------------------------------
(* C40: total and page of one get_filtered_servers call *)

\* C40: the total and the records one get_filtered_servers call returns describe
\* the same repository snapshot, also when an insert commits between its count
\* query and its page query: they are the result on the table as one of the two
\* statements saw it, and a page that holds records has
\* total >= offset + number of records.
C40_TotalAndPageFromOneSnapshot ==
    listing.phase = "done" =>
        /\ listing.servers # <<>> => listing.total >= listing.offset + Len(listing.servers)
        /\ \E snapshot \in {listing.at_count, listing.at_page} :
             \E x \in get_filtered_servers(snapshot, filter) :
                x.total = listing.total /\ x.servers = listing.servers

-----------------------------------------------------------------------------
(* C39: add_server calls that end in an error *)

\* C39: an add_server call that ends in any error (invalid_domain, pool_error,
\* server_exists, discovery_failed, database_error) leaves the repository and
\* the cache as they were: it has inserted no record and has deleted,
\* invalidated or written no cache key.
C39_FailedAddChangesNothing ==
    \A r \in Adds :
        (Done(r) /\ ret[r].kind = "error") =>
            /\ ~tmp[r].inserted
            /\ \A i \in DOMAIN tmp[r].log :
                 /\ tmp[r].log[i].call \notin CacheCalls
                 /\ tmp[r].log[i].call = "insert" => tmp[r].log[i].out = "err"

====
